---- MODULE Spec2Model ----
(***************************************************************************)
(* A model of the poryaaaa M4A synthesis engine, its PCM and CGB channels, *)
(* the CLAP plugin glue around it and the sub-voicegroup recursion of the  *)
(* voicegroup loader.                                                      *)
(*                                                                         *)
(* Conventions                                                             *)
(*  - C integers are modelled by their values; U8/S8 reproduce the         *)
(*    conversions the code performs.  32-bit words stay below 2^31 for the *)
(*    inputs enumerated here (TLC reports an overflow otherwise).          *)
(*  - Pointers are modelled by identities: a WaveData* is a wave id        *)
(*    (0 = NULL), currentPointer / loopStart are offsets from wav->data.   *)
(*  - m4a_engine_process is modelled one output frame at a time.  Whether  *)
(*    the float tick accumulator crosses samplesPerTick on a given frame   *)
(*    is a nondeterministic input of that frame.                           *)
(***************************************************************************)
EXTENDS Integers, Sequences, FiniteSets, TLC

(* ---- program constants (m4a_engine.h) ---- *)
MAX_PCM_CHANNELS == 12
MAX_CGB_CHANNELS == 4
MAX_TRACKS == 16
MAX_SONG_VOLUME == 127
VOICEGROUP_SIZE == 128

VOICE_TYPE_CGB_MASK == 7
VOICE_TYPE_FIX == 8
VOICE_KEYSPLIT == 64
VOICE_KEYSPLIT_ALL == 128

CHN_START == 128
CHN_STOP == 64
CHN_LOOP == 16
CHN_IEC == 4
CHN_ENV_MASK == 3
CHN_ENV_ATTACK == 3
CHN_ENV_DECAY == 2
CHN_ENV_SUSTAIN == 1
CHN_ENV_RELEASE == 0
CHN_ON == 199

(* ---- bounds of the model ---- *)
\* largest maxPcmChannels the engine specifications start with
MaxChan == 2
\* track indices 0 .. MaxTrackIn-1 receive MIDI events
MaxTrackIn == 3
\* track priorities are drawn from 0 .. MaxPrio
MaxPrio == 1
\* voicegroup files of a project tree
MaxVg == 3
\* nested parse_voicegroup_file activations the process affords before it
\* runs out of file handles or of stack
MaxDepth == 4
\* voicegroups the plugin loads in one run
MaxLoads == 2

(* ---- integer helpers ---- *)
Min(a, b) == IF a < b THEN a ELSE b
Max(a, b) == IF a > b THEN a ELSE b

Pow2(n) == 2 ^ n

\* C's >> on a non-negative value
Shr(x, n) == x \div Pow2(n)

\* C's arithmetic >> on a signed value (floor division)
Sar(x, n) == x \div Pow2(n)

\* conversion to uint8_t
U8(x) == x % 256

\* conversion to int8_t
S8(x) == LET u == x % 256 IN IF u >= 128 THEN u - 256 ELSE u

RECURSIVE BitAndN(_, _, _)
BitAndN(a, b, n) ==
  IF n = 0 \/ a = 0 \/ b = 0 THEN 0
  ELSE (a % 2) * (b % 2) + 2 * BitAndN(a \div 2, b \div 2, n - 1)

\* a & b for non-negative a, b below 2^31
BitAnd(a, b) == BitAndN(a, b, 31)

\* a | b for non-negative a, b below 2^31
BitOr(a, b) == a + b - BitAnd(a, b)

\* a & ~m for a byte a
BitClear(a, m) == a - BitAnd(a, m)

\* (status & CHN_ON) != 0 for a byte: CHN_ON is bits 0-2 and bits 6-7
IsOn(status) == (status % 8 # 0) \/ (status \div CHN_STOP # 0)

\* (status & CHN_STOP) != 0 for a byte
IsStop(status) == (status \div CHN_STOP) % 2 = 1


(* ---- loaded sample data (WaveData records of the voicegroup) ---- *)

\* WaveData headers; id 0 is the NULL pointer
WaveIds == 1 .. 3

WaveData(id) ==
  CASE id = 1 -> [status |-> 16384, freq |-> 1073741824, loopStart |-> 2, size |-> 4]
    [] id = 2 -> [status |-> 0, freq |-> 13700096, loopStart |-> 0, size |-> 3]
    [] id = 3 -> [status |-> 16384, freq |-> 13700096, loopStart |-> 2, size |-> 2]
    [] id = 4 -> [status |-> 0, freq |-> 16384, loopStart |-> 0, size |-> 3]

ZeroVoice ==
  [type |-> 0, key |-> 0, length |-> 0, panSweep |-> 0, wav |-> 0,
   keySplitTable |-> 0, attack |-> 0, decay |-> 0, sustain |-> 0, release |-> 0,
   vg |-> 0]

\* ToneData.wav also stands for the union members wavePointer (duty, period
\* flag or programmable-wave id) and subGroup (sub-voicegroup id).  vg is
\* not a member of the struct: it names the LoadedVoiceGroup that owns the
\* objects the voice's pointers refer to (0 before any group is attached).
Voice(type, key, panSweep, wav, a, d, s, r) ==
  [type |-> type, key |-> key, length |-> 0, panSweep |-> panSweep, wav |-> wav,
   keySplitTable |-> 0, attack |-> a, decay |-> d, sustain |-> s, release |-> r,
   vg |-> 0]

\* sub-voicegroup 1 (a drum kit / key-split target): entries by index
SubGroup(sg, idx) ==
  IF sg = 1 /\ idx = 60 THEN Voice(8, 72, 0, 2, 255, 0, 255, 0)
  ELSE IF sg = 1 /\ idx = 0 THEN Voice(0, 60, 0, 1, 128, 128, 64, 128)
  ELSE IF sg = 1 /\ idx = 1 THEN Voice(VOICE_KEYSPLIT, 0, 0, 1, 0, 0, 0, 0)
  ELSE IF sg = 1 /\ idx = 62 THEN Voice(2, 60, 255, 2, 0, 0, 15, 0)
  ELSE ZeroVoice

\* key-split table 1: keys below 64 -> sub-voice 0, others -> sub-voice 1
KeySplitTable(tbl, key) == IF key < 64 THEN 0 ELSE 1

\* the voice table produced by the loader for voicegroup vg (vg >= 1); all
\* loaded groups of the model carry the same voices
VoiceGroup(program) ==
  CASE program = 0 -> Voice(0, 60, 0, 1, 128, 128, 64, 128)
    [] program = 1 -> Voice(8, 60, 0, 2, 255, 0, 255, 0)
    [] program = 2 -> Voice(8, 60, 0, 1, 255, 0, 255, 0)
    [] program = 3 -> Voice(1, 60, 0, 2, 1, 1, 8, 1)
    [] program = 4 -> Voice(0, 60, 0, 0, 255, 0, 255, 0)
    [] program = 5 -> Voice(0, 60, 0, 3, 255, 0, 255, 0)
    [] program = 6 -> Voice(0, 60, 0, 1, 255, 0, 255, 0)
    [] program = 7 -> Voice(4, 60, 0, 1, 0, 0, 15, 0)
    [] program = 8 -> Voice(VOICE_KEYSPLIT_ALL, 0, 0, 1, 0, 0, 0, 0)
    [] program = 9 -> [Voice(VOICE_KEYSPLIT, 0, 0, 1, 0, 0, 0, 0) EXCEPT !.keySplitTable = 1]
    [] program = 10 -> Voice(4, 60, 0, 0, 0, 0, 15, 0)
    [] program = 11 -> Voice(VOICE_KEYSPLIT_ALL, 0, 0, 0, 0, 0, 0, 0)
    [] program = 12 -> [Voice(VOICE_KEYSPLIT, 0, 0, 0, 0, 0, 0, 0) EXCEPT !.keySplitTable = 1]
    [] OTHER -> ZeroVoice

(* ---- fixed-point tables ---- *)

\* gScaleTable[key]: high nibble = octave shift, low nibble = gFreqTable index
gScaleTable(key) == (14 - (key \div 12)) * 16 + (key % 12)

\* gFreqTable[i] >> 1 (the Q32 semitone ratios, halved to stay below 2^31)
gFreqTableHalf(i) ==
  CASE i = 0 -> 1073741824 [] i = 1 -> 1137589835 [] i = 2 -> 1205234447
    [] i = 3 -> 1276901417 [] i = 4 -> 1352829926 [] i = 5 -> 1433273380
    [] i = 6 -> 1518500250 [] i = 7 -> 1608794973 [] i = 8 -> 1704458901
    [] i = 9 -> 1805811301 [] i = 10 -> 1913190429 [] i = 11 -> 2026954652

gCgbScaleTable(key) == (key \div 12) * 16 + (key % 12)

gCgbFreqTable(i) ==
  CASE i = 0 -> -2004 [] i = 1 -> -1891 [] i = 2 -> -1785 [] i = 3 -> -1685
    [] i = 4 -> -1591 [] i = 5 -> -1501 [] i = 6 -> -1417 [] i = 7 -> -1337
    [] i = 8 -> -1262 [] i = 9 -> -1192 [] i = 10 -> -1125 [] i = 11 -> -1062

gNoiseTable(key) ==
  IF key >= 56 THEN 59 - key
  ELSE (13 - (key \div 4)) * 16 + 7 - (key % 4)

\* umul3232H32(a, b) = (a * b) >> 32 for a, b below 2^31, in 16-bit limbs
umul3232H32(a, b) ==
  LET a1 == a \div 65536
      a0 == a % 65536
      b1 == b \div 65536
      b0 == b % 65536
      c1 == b0 \div 256
      c0 == b0 % 256
      z == (a0 * c1 + ((a0 * c0) \div 256)) \div 256
      x == a1 * b0
      y == a0 * b1
  IN a1 * b1 + (x \div 65536) + (y \div 65536)
       + (((x % 65536) + (y % 65536) + z) \div 65536)

\* gFreqTable[v & 0xF] >> (v >> 4) for v = gScaleTable[key], keys below 168
ScaledFreq(key) ==
  LET v == gScaleTable(key)
  IN CASE v \div 16 >= 1 -> Shr(gFreqTableHalf(v % 16), (v \div 16) - 1)

m4a_midi_key_to_freq(wavFreq, key0, fineAdjust0) ==
  LET key == IF key0 > 178 THEN 178 ELSE key0
      fineAdjust == IF key0 > 178 THEN 255 ELSE fineAdjust0
      val1 == ScaledFreq(key)
      val2 == ScaledFreq(key + 1)
      d == val2 - val1
      \* umul3232H32(d, fineAdjust << 24) = (d * fineAdjust) >> 8
      inner == (d \div 256) * fineAdjust + (((d % 256) * fineAdjust) \div 256)
  IN umul3232H32(wavFreq, val1 + inner)

m4a_midi_key_to_cgb_freq(chanNum, key0, fineAdjust0) ==
  IF chanNum = 4
  THEN LET key == IF key0 <= 20 THEN 0 ELSE Min(key0 - 21, 59)
       IN gNoiseTable(key)
  ELSE LET key == IF key0 <= 35 THEN 0 ELSE Min(key0 - 36, 130)
           fineAdjust == IF key0 <= 35 THEN 0
                         ELSE IF key0 - 36 > 130 THEN 255 ELSE fineAdjust0
           s1 == gCgbScaleTable(key)
           s2 == gCgbScaleTable(key + 1)
           val1 == Sar(gCgbFreqTable(s1 % 16), s1 \div 16)
           val2 == Sar(gCgbFreqTable(s2 % 16), s2 \div 16)
       IN val1 + Sar(fineAdjust * (val2 - val1), 8) + 2048

\* pcmFreq = (597275 * pcmSamplesPerVBlank + 5000) / 10000 with 224 samples
pcmFreq == 13379

\* divFreq = (16777216 / pcmFreq + 1) >> 1
divFreq == ((16777216 \div pcmFreq) + 1) \div 2

\* conversion of a non-negative integer below 2^31 to float and back to an
\* integer: round to nearest even at 24 significant bits
RECURSIVE BitLen(_)
BitLen(x) == IF x = 0 THEN 0 ELSE 1 + BitLen(x \div 2)

FloatRound(x) ==
  IF BitLen(x) <= 24 THEN x
  ELSE LET ulp == Pow2(BitLen(x) - 24)
           q == x \div ulp
           r == x % ulp
       IN IF 2 * r > ulp \/ (2 * r = ulp /\ q % 2 = 1) THEN (q + 1) * ulp
          ELSE q * ulp

\* scale = (float)pcmFreq / sampleRate is 1/k for the sample rates of the
\* model (k * pcmFreq); (uint32_t)(x * scale) for a float x
ScaleDown(x, sampleRate) == x \div (sampleRate \div pcmFreq)

\* the frequency word of a resampled PCM note
PcmFrequency(wavFreq, finalKey, pitM, sampleRate) ==
  ScaleDown(FloatRound(m4a_midi_key_to_freq(wavFreq, finalKey, pitM) * divFreq),
            sampleRate)

\* the frequency word of a fixed-frequency PCM note: 0x800000 * scale
FixFrequency(sampleRate) == ScaleDown(8388608, sampleRate)


(* ---- engine records ---- *)

\* M4ATrack after m4a_engine_init
InitTrack ==
  [volume |-> 127, rawVolume |-> 127, volX |-> 64, pan |-> 0, panX |-> 0,
   bend |-> 0, bendRange |-> 2, lfoSpeed |-> 22, lfoSpeedC |-> 0,
   lfoDelay |-> 0, lfoDelayC |-> 0, mod |-> 0, modT |-> 0, modM |-> 0,
   keyShift |-> 0, keyShiftX |-> 0, tune |-> 0, pitX |-> 0, keyM |-> 0,
   pitM |-> 0, volMR |-> 0, volML |-> 0, pseudoEchoVolume |-> 0,
   pseudoEchoLength |-> 0, priority |-> 0, currentProgram |-> 0,
   currentVoice |-> ZeroVoice]

\* M4APCMChannel after m4a_engine_init (memset to zero)
InitPcmChannel ==
  [status |-> 0, type |-> 0, rightVolume |-> 0, leftVolume |-> 0,
   attack |-> 0, decay |-> 0, sustain |-> 0, release |-> 0, key |-> 0,
   envelopeVolume |-> 0, envelopeVolumeRight |-> 0, envelopeVolumeLeft |-> 0,
   pseudoEchoVolume |-> 0, pseudoEchoLength |-> 0, midiKey |-> 0,
   velocity |-> 0, priority |-> 0, rhythmPan |-> 0, gateTime |-> 0,
   wav |-> 0, wavVg |-> 0, currentPointer |-> 0, count |-> 0, fw |-> 0,
   frequency |-> 0, trackIndex |-> 0, isLoop |-> FALSE, loopLen |-> 0,
   loopStart |-> 0]

\* M4ACGBChannel i after m4a_engine_init: type i+1, panMask 0x11 << i
InitCgbChannel(i) ==
  [status |-> 0, type |-> i + 1, rightVolume |-> 0, leftVolume |-> 0,
   attack |-> 0, decay |-> 0, sustain |-> 0, release |-> 0, key |-> 0,
   envelopeVolume |-> 0, envelopeGoal |-> 0, envelopeCounter |-> 0,
   pseudoEchoVolume |-> 0, pseudoEchoLength |-> 0, midiKey |-> 0,
   velocity |-> 0, priority |-> 0, rhythmPan |-> 0, gateTime |-> 0,
   sustainGoal |-> 0, length |-> 0, sweep |-> 0, dutyCycle |-> 0, pan |-> 0,
   panMask |-> 17 * Pow2(i), modify |-> 0, frequency |-> 0, wavePointer |-> 0,
   wavVg |-> 0, lfsr |-> 0, phase |-> <<0, 0>>, trackIndex |-> 0]

(* ---- m4a_engine.c: track and channel volume ---- *)

m4a_track_vol_pit_set(track) ==
  LET x0 == Shr(track.volume * track.volX, 5)
      x == IF track.modT = 1 THEN Shr(x0 * (track.modM + 128), 7) ELSE x0
      y0 == 2 * track.pan + track.panX
      y1 == IF track.modT = 2 THEN y0 + track.modM ELSE y0
      y == IF y1 < -128 THEN -128 ELSE IF y1 > 127 THEN 127 ELSE y1
      bend == track.bend * track.bendRange
      p0 == (track.tune + bend) * 4 + track.keyShift * 256
              + track.keyShiftX * 256 + track.pitX
      pitchVal == IF track.modT = 0 THEN p0 + 16 * track.modM ELSE p0
  IN [track EXCEPT !.volMR = U8(Shr((y + 128) * x, 8)),
                   !.volML = U8(Shr((127 - y) * x, 8)),
                   !.keyM = S8(Sar(pitchVal, 8)),
                   !.pitM = U8(pitchVal)]

\* chn_vol_set and cgb_chn_vol_set have the same body
chn_vol_set(ch, track) ==
  LET r == Shr((128 + ch.rhythmPan) * ch.velocity * track.volMR, 14)
      l == Shr((127 - ch.rhythmPan) * ch.velocity * track.volML, 14)
  IN [ch EXCEPT !.rightVolume = Min(r, 255), !.leftVolume = Min(l, 255)]

IsSplit(type) == BitAnd(type, VOICE_KEYSPLIT + VOICE_KEYSPLIT_ALL) # 0

\* a faulty variant of resolve_voice that takes sub-voicegroup 1 where the
\* voice has none
ResolveDefaultGroup(voice, key) ==
  IF IsSplit(voice.type)
  THEN LET resolved == SubGroup(1, IF BitAnd(voice.type, VOICE_KEYSPLIT_ALL) # 0
                                   THEN key ELSE KeySplitTable(1, key))
       IN IF IsSplit(resolved.type) THEN [ok |-> FALSE, v |-> ZeroVoice]
          ELSE [ok |-> TRUE, v |-> resolved]
  ELSE [ok |-> TRUE, v |-> voice]

\* resolve_voice: the resolved ToneData, or ZeroVoice with ok = FALSE for NULL
resolve_voice(voice, key) ==
  IF BitAnd(voice.type, VOICE_KEYSPLIT_ALL) # 0
  THEN IF voice.wav = 0 THEN [ok |-> FALSE, v |-> ZeroVoice]
       ELSE LET resolved == SubGroup(voice.wav, key)
            IN IF IsSplit(resolved.type) THEN [ok |-> FALSE, v |-> ZeroVoice]
               ELSE [ok |-> TRUE, v |-> resolved]
  ELSE IF BitAnd(voice.type, VOICE_KEYSPLIT) # 0
  THEN IF voice.wav = 0 \/ voice.keySplitTable = 0
       THEN [ok |-> FALSE, v |-> ZeroVoice]
       ELSE LET resolved == SubGroup(voice.wav, KeySplitTable(voice.keySplitTable, key))
            IN IF IsSplit(resolved.type) THEN [ok |-> FALSE, v |-> ZeroVoice]
               ELSE [ok |-> TRUE, v |-> resolved]
  ELSE [ok |-> TRUE, v |-> voice]

(* ---- m4a_channel.c: PCM channel ---- *)

\* a faulty variant of PcmLoopSetup that takes the whole sample as the loop
PcmLoopSetupWhole(ch, w) ==
  IF BitAnd(w.status, 49152) # 0
  THEN [ch EXCEPT !.isLoop = w.size > 0, !.loopStart = w.loopStart,
                  !.loopLen = w.size]
  ELSE [ch EXCEPT !.isLoop = FALSE]

\* the loop set-up of m4a_pcm_channel_start: loopStart and loopLen are written
\* only when the sample's loop flag is set
PcmLoopSetup(ch, w) ==
  IF BitAnd(w.status, 49152) # 0
  THEN LET len == w.size - w.loopStart
       IN IF len <= 0
          THEN [ch EXCEPT !.isLoop = FALSE, !.loopStart = w.loopStart, !.loopLen = 0]
          ELSE [ch EXCEPT !.isLoop = TRUE, !.loopStart = w.loopStart, !.loopLen = len]
  ELSE [ch EXCEPT !.isLoop = FALSE]

\* a faulty variant of m4a_pcm_channel_start that leaves the envelope at 0
\* until the first tick
PcmStartSilent(ch0, wav, type) ==
  LET w == WaveData(wav)
      ch1 == PcmLoopSetup([ch0 EXCEPT !.wav = wav, !.type = type,
                                      !.currentPointer = 0, !.count = w.size,
                                      !.fw = 0], w)
  IN [ch1 EXCEPT !.status = CHN_ENV_ATTACK + (IF ch1.isLoop THEN CHN_LOOP ELSE 0),
                 !.envelopeVolume = 0]

\* a faulty variant of m4a_pcm_channel_start that never skips the attack
\* stage
PcmStartInAttack(ch0, wav, type) ==
  LET w == WaveData(wav)
      ch1 == PcmLoopSetup([ch0 EXCEPT !.wav = wav, !.type = type,
                                      !.currentPointer = 0, !.count = w.size,
                                      !.fw = 0], w)
  IN [ch1 EXCEPT !.status = CHN_ENV_ATTACK + (IF ch1.isLoop THEN CHN_LOOP ELSE 0),
                 !.envelopeVolume = Min(ch1.attack, 255)]

m4a_pcm_channel_start(ch0, wav, type) ==
  LET w == WaveData(wav)
      ch1 == PcmLoopSetup([ch0 EXCEPT !.wav = wav, !.type = type,
                                      !.currentPointer = 0, !.count = w.size,
                                      !.fw = 0], w)
      loopBit == IF ch1.isLoop THEN CHN_LOOP ELSE 0
  IN IF ch1.attack >= 255
     THEN [ch1 EXCEPT !.status = CHN_ENV_DECAY + loopBit, !.envelopeVolume = 255]
     ELSE [ch1 EXCEPT !.status = CHN_ENV_ATTACK + loopBit,
                      !.envelopeVolume = ch1.attack]

\* the "final per-channel volumes" tail of m4a_pcm_channel_tick
PcmEnvVolumes(ch, envVol, masterVolume) ==
  LET vol == Shr((masterVolume + 1) * envVol, 4)
  IN [ch EXCEPT !.envelopeVolume = envVol,
                !.envelopeVolumeRight = U8(Shr(ch.rightVolume * vol, 8)),
                !.envelopeVolumeLeft = U8(Shr(ch.leftVolume * vol, 8))]

\* the attack step of the envelope; envVol is a uint8_t
PcmAttackStep(envVol, attack) == U8(envVol + attack)

m4a_pcm_channel_tick(ch0, masterVolume) ==
  IF ~IsOn(ch0.status) THEN ch0
  ELSE IF BitAnd(ch0.status, CHN_START) # 0 /\ IsStop(ch0.status)
  THEN [ch0 EXCEPT !.status = 0]
  ELSE
    LET started == BitAnd(ch0.status, CHN_START) # 0
        ch == IF started
              THEN [ch0 EXCEPT !.status = CHN_ENV_ATTACK
                                 + (IF ch0.isLoop THEN CHN_LOOP ELSE 0),
                               !.fw = 0]
              ELSE ch0
        envVol == IF started THEN 0 ELSE ch0.envelopeVolume
    IN IF BitAnd(ch.status, CHN_IEC) # 0
       THEN LET len == U8(ch.pseudoEchoLength - 1)
            IN IF len = 0
               THEN [ch EXCEPT !.pseudoEchoLength = len, !.status = 0]
               ELSE PcmEnvVolumes([ch EXCEPT !.pseudoEchoLength = len],
                                  envVol, masterVolume)
       ELSE IF IsStop(ch.status)
       THEN LET e == Shr(envVol * ch.release, 8)
            IN IF e <= ch.pseudoEchoVolume
               THEN IF ch.pseudoEchoVolume = 0
                    THEN [ch EXCEPT !.status = 0]
                    ELSE PcmEnvVolumes([ch EXCEPT !.status = BitOr(ch.status, CHN_IEC)],
                                       ch.pseudoEchoVolume, masterVolume)
               ELSE PcmEnvVolumes(ch, e, masterVolume)
       ELSE LET envState == BitAnd(ch.status, CHN_ENV_MASK)
            IN IF envState = CHN_ENV_DECAY
               THEN LET e == Shr(envVol * ch.decay, 8)
                    IN IF e <= ch.sustain
                       THEN IF ch.sustain = 0
                            THEN IF ch.pseudoEchoVolume = 0
                                 THEN [ch EXCEPT !.status = 0]
                                 ELSE PcmEnvVolumes(
                                        [ch EXCEPT !.status =
                                           BitOr(BitClear(ch.status, CHN_ENV_MASK), CHN_IEC)],
                                        ch.pseudoEchoVolume, masterVolume)
                            ELSE PcmEnvVolumes([ch EXCEPT !.status = U8(ch.status - 1)],
                                               ch.sustain, masterVolume)
                       ELSE PcmEnvVolumes(ch, e, masterVolume)
               ELSE IF envState = CHN_ENV_ATTACK
               THEN LET e == PcmAttackStep(envVol, ch.attack)
                    IN IF e >= 255
                       THEN PcmEnvVolumes([ch EXCEPT !.status = U8(ch.status - 1)],
                                          255, masterVolume)
                       ELSE PcmEnvVolumes(ch, e, masterVolume)
               ELSE PcmEnvVolumes(ch, envVol, masterVolume)

\* a faulty variant of PcmWrapCount that stops at count = 0
RECURSIVE PcmWrapCountLax(_, _)
PcmWrapCountLax(count, loopLen) ==
  IF count < 0 THEN PcmWrapCountLax(count + loopLen, loopLen) ELSE count

\* the loop wrap of m4a_pcm_channel_render: while (count <= 0) count += loopLen
RECURSIVE PcmWrapCount(_, _)
PcmWrapCount(count, loopLen) ==
  IF count <= 0 THEN PcmWrapCount(count + loopLen, loopLen) ELSE count

\* the position advance of m4a_pcm_channel_render (one output sample)
m4a_pcm_channel_render(ch) ==
  IF ~IsOn(ch.status) \/ BitAnd(ch.status, CHN_START) # 0 THEN ch
  ELSE
    LET fw1 == ch.fw + ch.frequency
        advance == Shr(fw1, 23)
    IN IF advance = 0 THEN [ch EXCEPT !.fw = fw1]
       ELSE LET fw2 == fw1 % 8388608
                count == ch.count - advance
            IN IF count <= 0
               THEN IF ch.isLoop /\ ch.loopLen > 0
                    THEN LET c == PcmWrapCount(count, ch.loopLen)
                         IN [ch EXCEPT !.fw = fw2, !.count = c,
                                       !.currentPointer = ch.loopStart + (ch.loopLen - c)]
                    ELSE [ch EXCEPT !.fw = fw2, !.count = count, !.status = 0]
               ELSE [ch EXCEPT !.fw = fw2, !.count = count,
                               !.currentPointer = ch.currentPointer + advance]


(* ---- m4a_channel.c: CGB channel ---- *)

m4a_cgb_channel_start(ch0) ==
  LET ch1 == [ch0 EXCEPT !.status = CHN_ENV_ATTACK, !.modify = 3,
                         !.phase = <<0, 0>>,
                         !.envelopeCounter = ch0.attack]
      ch2 == IF ch1.attack = 0
             THEN LET d == [ch1 EXCEPT !.envelopeVolume = ch1.envelopeGoal,
                                       !.status = CHN_ENV_DECAY,
                                       !.envelopeCounter = ch1.decay]
                  IN IF d.decay = 0
                     THEN IF d.sustain = 0
                          THEN [d EXCEPT !.status = CHN_ENV_RELEASE]
                          ELSE [d EXCEPT !.envelopeVolume = d.sustainGoal,
                                         !.status = CHN_ENV_SUSTAIN]
                     ELSE d
             ELSE [ch1 EXCEPT !.envelopeVolume = 0]
  IN IF ch2.type = 4
     THEN [ch2 EXCEPT !.lfsr = IF BitAnd(ch2.frequency, 8) # 0 THEN 127 ELSE 32767]
     ELSE ch2

\* cgb_pan: 15 (hard right), 240 (hard left) or 0 when the channel is not
\* hard-panned
\* a faulty variant of cgb_pan that hard-pans only below half of the louder
\* side
CgbPanBelowHalf(ch) ==
  IF ch.rightVolume >= ch.leftVolume
  THEN IF ch.rightVolume \div 2 > ch.leftVolume THEN 15 ELSE 0
  ELSE IF ch.leftVolume \div 2 > ch.rightVolume THEN 240 ELSE 0

\* cgb_pan: the pan it stores (0x0F or 0xF0), or 0 when it returns 0
cgb_pan(ch) ==
  IF ch.rightVolume >= ch.leftVolume
  THEN IF ch.rightVolume \div 2 >= ch.leftVolume THEN 15 ELSE 0
  ELSE IF ch.leftVolume \div 2 >= ch.rightVolume THEN 240 ELSE 0

m4a_cgb_mod_vol(ch) ==
  LET p == cgb_pan(ch)
      g0 == (ch.leftVolume + ch.rightVolume) \div 16
      goal == IF p = 0 THEN g0 ELSE Min(g0, 15)
      pan == IF p = 0 THEN 255 ELSE p
  IN [ch EXCEPT !.envelopeGoal = goal,
                !.sustainGoal = U8(Shr(goal * ch.sustain + 15, 4)),
                !.pan = BitAnd(pan, ch.panMask)]

\* the pseudo_echo label of m4a_cgb_channel_tick; k = "done" continues at
\* envelope_complete, k = "dead" returns with status 0
\* a faulty variant of the pseudo_echo block that leaves a channel without
\* echo in its release
CgbPseudoEchoHeld(ch) ==
  LET ev == U8(Shr(ch.envelopeGoal * ch.pseudoEchoVolume + 255, 8))
  IN IF ev # 0
     THEN [k |-> "done", ch |-> [ch EXCEPT !.envelopeVolume = ev,
                                           !.status = BitOr(ch.status, CHN_IEC),
                                           !.modify = BitOr(ch.modify, 1)]]
     ELSE [k |-> "done", ch |-> [ch EXCEPT !.envelopeVolume = ev]]

CgbPseudoEcho(ch) ==
  LET ev == U8(Shr(ch.envelopeGoal * ch.pseudoEchoVolume + 255, 8))
  IN IF ev # 0
     THEN [k |-> "done", ch |-> [ch EXCEPT !.envelopeVolume = ev,
                                           !.status = BitOr(ch.status, CHN_IEC),
                                           !.modify = BitOr(ch.modify, 1)]]
     ELSE [k |-> "dead", ch |-> [ch EXCEPT !.envelopeVolume = ev, !.status = 0]]

\* the body between step_repeat and step_complete; k = "step" reaches
\* step_complete
CgbStepBody(ch0) ==
  IF ch0.envelopeCounter # 0 THEN [k |-> "step", ch |-> ch0]
  ELSE
    LET ch == m4a_cgb_mod_vol(ch0)
        envState == BitAnd(ch.status, CHN_ENV_MASK)
    IN IF envState = CHN_ENV_RELEASE
       THEN LET ev == U8(ch.envelopeVolume - 1)
            IN IF S8(ev) <= 0
               THEN CgbPseudoEcho([ch EXCEPT !.envelopeVolume = ev])
               ELSE [k |-> "step", ch |-> [ch EXCEPT !.envelopeVolume = ev,
                                                     !.envelopeCounter = ch.release]]
       ELSE IF envState = CHN_ENV_SUSTAIN
       THEN [k |-> "step", ch |-> [ch EXCEPT !.envelopeVolume = ch.sustainGoal,
                                             !.envelopeCounter = 7]]
       ELSE IF envState = CHN_ENV_DECAY
       THEN LET ev == U8(ch.envelopeVolume - 1)
            IN IF S8(ev) <= S8(ch.sustainGoal)
               THEN IF ch.sustain = 0
                    THEN CgbPseudoEcho([ch EXCEPT !.envelopeVolume = ev,
                                                  !.status = BitClear(ch.status, CHN_ENV_MASK)])
                    ELSE [k |-> "step",
                          ch |-> [ch EXCEPT !.status = U8(ch.status - 1),
                                            !.modify = BitOr(ch.modify, 1),
                                            !.envelopeVolume = ch.sustainGoal,
                                            !.envelopeCounter = 7]]
               ELSE [k |-> "step", ch |-> [ch EXCEPT !.envelopeVolume = ev,
                                                     !.envelopeCounter = ch.decay]]
       ELSE LET ev == U8(ch.envelopeVolume + 1)
            IN IF ev >= ch.envelopeGoal
               THEN IF ch.decay # 0
                    THEN [k |-> "step",
                          ch |-> [ch EXCEPT !.status = U8(ch.status - 1),
                                            !.envelopeCounter = ch.decay,
                                            !.modify = BitOr(ch.modify, 1),
                                            !.envelopeVolume = ch.envelopeGoal]]
                    ELSE IF ch.sustain = 0
                    THEN CgbPseudoEcho([ch EXCEPT !.envelopeVolume = ev,
                                                  !.envelopeCounter = ch.decay,
                                                  !.status = BitClear(U8(ch.status - 1), CHN_ENV_MASK)])
                    ELSE [k |-> "step",
                          ch |-> [ch EXCEPT !.status = U8(ch.status - 2),
                                            !.envelopeVolume = ch.sustainGoal,
                                            !.envelopeCounter = 7]]
               ELSE [k |-> "step", ch |-> [ch EXCEPT !.envelopeVolume = ev,
                                                     !.envelopeCounter = ch.attack]]

\* step_complete: envelopeCounter-- and, when repeat holds, one more pass
\* through step_repeat; then envelope_complete
CgbStepComplete(ch0, repeat) ==
  LET ch1 == [ch0 EXCEPT !.envelopeCounter = U8(ch0.envelopeCounter - 1)]
  IN IF repeat
     THEN LET r == CgbStepBody(ch1)
          IN IF r.k = "step"
             THEN [r.ch EXCEPT !.envelopeCounter = U8(r.ch.envelopeCounter - 1),
                               !.modify = 0]
             ELSE IF r.k = "done" THEN [r.ch EXCEPT !.modify = 0]
             ELSE r.ch
     ELSE [ch1 EXCEPT !.modify = 0]

\* the result of a jump to a label that ends in envelope_complete or returns
CgbFinish(r, repeat) ==
  IF r.k = "step" THEN CgbStepComplete(r.ch, repeat)
  ELSE IF r.k = "done" THEN [r.ch EXCEPT !.modify = 0]
  ELSE r.ch

\* m4a_cgb_channel_tick.  The two "goto step_complete" paths that enter the
\* block from outside skip the initialisers of doubleStep and steps, so the
\* test "doubleStep && steps == 0" reads indeterminate values there: u is
\* the outcome of that test.
m4a_cgb_channel_tick(ch0, c15, u) ==
  IF ~IsOn(ch0.status) THEN ch0
  ELSE IF BitAnd(ch0.status, CHN_START) # 0
  THEN IF IsStop(ch0.status) THEN [ch0 EXCEPT !.status = 0]
       ELSE LET ch1 == m4a_cgb_mod_vol([ch0 EXCEPT !.status = CHN_ENV_ATTACK,
                                                  !.modify = 3])
                ch2 == [ch1 EXCEPT !.envelopeCounter = ch1.attack]
            IN IF ch2.attack # 0
               THEN CgbStepComplete([ch2 EXCEPT !.envelopeVolume = 0], u)
               ELSE LET d == [ch2 EXCEPT !.envelopeVolume = ch2.envelopeGoal,
                                         !.status = CHN_ENV_DECAY,
                                         !.envelopeCounter = ch2.decay]
                    IN IF d.decay = 0
                       THEN IF d.sustain = 0
                            THEN CgbFinish(CgbPseudoEcho(d), u)
                            ELSE CgbStepComplete(
                                   [d EXCEPT !.status = CHN_ENV_SUSTAIN,
                                             !.envelopeVolume = d.sustainGoal], u)
                       ELSE CgbStepComplete(d, u)
  ELSE IF BitAnd(ch0.status, CHN_IEC) # 0
  THEN LET len == U8(ch0.pseudoEchoLength - 1)
       IN IF S8(len) <= 0
          THEN [ch0 EXCEPT !.pseudoEchoLength = len, !.status = 0]
          ELSE [ch0 EXCEPT !.pseudoEchoLength = len, !.modify = 0]
  ELSE IF IsStop(ch0.status) /\ BitAnd(ch0.status, CHN_ENV_MASK) # 0
  THEN LET ch1 == [ch0 EXCEPT !.status = BitClear(ch0.status, CHN_ENV_MASK),
                              !.envelopeCounter = ch0.release]
       IN IF ch1.release # 0
          THEN CgbStepComplete([ch1 EXCEPT !.modify = BitOr(ch1.modify, 1)], u)
          ELSE CgbFinish(CgbPseudoEcho(ch1), u)
  ELSE CgbFinish(CgbStepBody(ch0), c15 = 0)


(* ---- m4a_engine.c: channel allocation ---- *)

PcmIdx == 0 .. (MAX_PCM_CHANNELS - 1)
CgbIdx == 0 .. (MAX_CGB_CHANNELS - 1)
TrackIdx == 0 .. (MAX_TRACKS - 1)

\* the scan state of allocate_pcm_channel before the first channel
AllocStart(priority, trackIndex) ==
  [best |-> -1, bestPriority |-> priority, bestTrackIndex |-> trackIndex,
   bestIsStopping |-> FALSE]

\* a faulty variant of AllocStopping that prefers the stopping channel of
\* higher priority
AllocStoppingHighest(st, ch, i) ==
  IF ~st.bestIsStopping
  THEN [best |-> i, bestPriority |-> ch.priority,
        bestTrackIndex |-> ch.trackIndex, bestIsStopping |-> TRUE]
  ELSE IF ch.priority > st.bestPriority
  THEN [st EXCEPT !.best = i, !.bestPriority = ch.priority,
                  !.bestTrackIndex = ch.trackIndex]
  ELSE st

\* allocate_pcm_channel, loop body for a channel with CHN_STOP set
AllocStopping(st, ch, i) ==
  IF ~st.bestIsStopping
  THEN [best |-> i, bestPriority |-> ch.priority,
        bestTrackIndex |-> ch.trackIndex, bestIsStopping |-> TRUE]
  ELSE IF ch.priority < st.bestPriority
  THEN [st EXCEPT !.best = i, !.bestPriority = ch.priority,
                  !.bestTrackIndex = ch.trackIndex]
  ELSE IF ch.priority = st.bestPriority /\ ch.trackIndex >= st.bestTrackIndex
  THEN [st EXCEPT !.best = i, !.bestTrackIndex = ch.trackIndex]
  ELSE st

\* a faulty variant of AllocActive that breaks ties towards the lowest track
\* index
AllocActiveLowest(st, ch, i) ==
  IF st.bestIsStopping THEN st
  ELSE IF ch.priority < st.bestPriority
  THEN [st EXCEPT !.best = i, !.bestPriority = ch.priority,
                  !.bestTrackIndex = ch.trackIndex]
  ELSE IF ch.priority = st.bestPriority /\ ch.trackIndex <= st.bestTrackIndex
  THEN [st EXCEPT !.best = i, !.bestTrackIndex = ch.trackIndex]
  ELSE st

\* allocate_pcm_channel, loop body for an active channel that is not stopping
AllocActive(st, ch, i) ==
  IF st.bestIsStopping THEN st
  ELSE IF ch.priority < st.bestPriority
  THEN [st EXCEPT !.best = i, !.bestPriority = ch.priority,
                  !.bestTrackIndex = ch.trackIndex]
  ELSE IF ch.priority = st.bestPriority /\ ch.trackIndex >= st.bestTrackIndex
  THEN [st EXCEPT !.best = i, !.bestTrackIndex = ch.trackIndex]
  ELSE st

\* the final test of allocate_pcm_channel: the index to use, or -1 for NULL
AllocDecide(st, priority) ==
  IF st.best >= 0 /\ (st.bestIsStopping \/ priority >= st.bestPriority)
  THEN st.best
  ELSE -1

RECURSIVE AllocScan(_, _, _, _, _)
AllocScan(chs, maxCh, i, st, priority) ==
  IF i >= maxCh THEN AllocDecide(st, priority)
  ELSE IF ~IsOn(chs[i].status) THEN i
  ELSE IF IsStop(chs[i].status)
  THEN AllocScan(chs, maxCh, i + 1, AllocStopping(st, chs[i], i), priority)
  ELSE AllocScan(chs, maxCh, i + 1, AllocActive(st, chs[i], i), priority)

\* a faulty variant of allocate_pcm_channel that takes channel 0 when the
\* scan finds no channel to use
AllocateOrFirst(chs, maxCh, priority, trackIndex) ==
  LET r == AllocScan(chs, maxCh, 0, AllocStart(priority, trackIndex), priority)
  IN IF r < 0 THEN 0 ELSE r

\* a faulty variant of allocate_pcm_channel that scans every channel of the
\* engine
AllocateAnyChannel(chs, maxCh, priority, trackIndex) ==
  AllocScan(chs, MAX_PCM_CHANNELS, 0, AllocStart(priority, trackIndex), priority)

allocate_pcm_channel(chs, maxCh, priority, trackIndex) ==
  AllocScan(chs, maxCh, 0, AllocStart(priority, trackIndex), priority)

(* ---- m4a_engine.c: note on ---- *)

\* a faulty variant of CgbCannotSteal that protects a releasing incumbent too
CgbCannotStealOn(ch, priority, trackIndex) ==
  /\ IsOn(ch.status)
  /\ \/ ch.priority > priority
     \/ ch.priority = priority /\ ch.trackIndex < trackIndex

\* the test "can't steal" of the CGB branch of m4a_engine_note_on
CgbCannotSteal(ch, priority, trackIndex) ==
  /\ IsOn(ch.status)
  /\ ~IsStop(ch.status)
  /\ \/ ch.priority > priority
     \/ ch.priority = priority /\ ch.trackIndex < trackIndex

\* the fields m4a_engine_note_on copies into a PCM or CGB channel
NoteFields(ch, voice, track, trackIndex, key, useKey, velocity, rhythmPan) ==
  [ch EXCEPT !.midiKey = key, !.key = useKey, !.velocity = velocity,
             !.priority = track.priority, !.trackIndex = trackIndex,
             !.rhythmPan = rhythmPan, !.attack = voice.attack,
             !.decay = voice.decay, !.sustain = voice.sustain,
             !.release = voice.release,
             !.pseudoEchoVolume = track.pseudoEchoVolume,
             !.pseudoEchoLength = track.pseudoEchoLength, !.gateTime = 0]

\* the CGB branch of m4a_engine_note_on for a channel it may take
CgbNoteStart(ch0, voice, voiceType, track, trackIndex, key, useKey, velocity, rhythmPan, finalKey) ==
  LET ch1 == [NoteFields(ch0, voice, track, trackIndex, key, useKey, velocity,
                         rhythmPan) EXCEPT !.length = voice.length]
      ch2 == m4a_cgb_mod_vol(chn_vol_set(ch1, track))
      ch3 == IF voiceType = 1
             THEN [ch2 EXCEPT !.dutyCycle = voice.wav % 4,
                              !.sweep = IF BitAnd(voice.panSweep, 112) # 0
                                        THEN voice.panSweep ELSE 8]
             ELSE IF voiceType = 2 THEN [ch2 EXCEPT !.dutyCycle = voice.wav % 4]
             ELSE IF voiceType = 3
             THEN [ch2 EXCEPT !.wavePointer = voice.wav, !.wavVg = voice.vg]
             ELSE ch2
      f == m4a_midi_key_to_cgb_freq(voiceType, finalKey, track.pitM)
      ch4 == [ch3 EXCEPT !.frequency =
                IF voiceType = 4 THEN BitOr(f, (voice.wav % 2) * 8) ELSE f]
  IN m4a_cgb_channel_start(ch4)

\* the PCM branch of m4a_engine_note_on for the channel the allocator chose
PcmNoteStart(ch0, voice, track, trackIndex, key, useKey, velocity, rhythmPan, finalKey, sRate, mVol) ==
  LET ch1 == chn_vol_set(NoteFields(ch0, voice, track, trackIndex, key, useKey,
                                    velocity, rhythmPan), track)
      ch2 == [ch1 EXCEPT !.frequency =
                IF BitAnd(voice.type, VOICE_TYPE_FIX) # 0
                THEN FixFrequency(sRate)
                ELSE PcmFrequency(WaveData(voice.wav).freq, finalKey,
                                  track.pitM, sRate),
                         !.wavVg = voice.vg]
      ch3 == m4a_pcm_channel_start(ch2, voice.wav, voice.type)
  IN PcmEnvVolumes(ch3, ch3.envelopeVolume, mVol)

\* M4AEngine after m4a_engine_init(engine, sampleRate)
m4a_engine_init(sRate) ==
  [tracks |-> [t \in TrackIdx |-> InitTrack],
   pcmChannels |-> [i \in PcmIdx |-> InitPcmChannel],
   cgbChannels |-> [i \in CgbIdx |-> InitCgbChannel(i)],
   sampleRate |-> sRate, masterVolume |-> 15,
   songMasterVolume |-> MAX_SONG_VOLUME, maxPcmChannels |-> 5, c15 |-> 14,
   tempoI |-> 150, tempoC |-> 0, voiceGroup |-> 0,
   tickAccumulator |-> 0, analogFilter |-> FALSE, lowPass |-> <<>>,
   reverb |-> [pos |-> 0, amount |-> 0, buffer |-> <<>>]]

\* m4a_engine_note_on: e is the engine after the call; alloc is the PCM
\* channel allocate_pcm_channel returned (-1: NULL, -2: not called); cgb is
\* the CGB channel the note addressed (-1: none) and taken tells that the
\* note was started on it
NoteOn(e, trackIndex, key, velocity) ==
  LET none == [e |-> e, alloc |-> -2, cgb |-> -1, taken |-> FALSE]
  IN
  IF trackIndex < 0 \/ trackIndex >= MAX_TRACKS THEN none
  ELSE
    LET track0 == e.tracks[trackIndex]
        r == resolve_voice(track0.currentVoice, key)
    IN IF ~r.ok THEN none
       ELSE
         LET voice == r.v
             voiceType == BitAnd(voice.type, VOICE_TYPE_CGB_MASK)
             rhythm == BitAnd(track0.currentVoice.type, VOICE_KEYSPLIT_ALL) # 0
             useKey == IF rhythm THEN voice.key ELSE key
             rhythmPan == IF rhythm /\ BitAnd(voice.panSweep, 128) # 0
                          THEN S8((voice.panSweep - 192) * 2) ELSE 0
             track == m4a_track_vol_pit_set(track0)
             e1 == [e EXCEPT !.tracks[trackIndex] = track]
             finalKey == Max(0, Min(127, useKey + track.keyM))
         IN IF voiceType >= 1 /\ voiceType <= 4
            THEN LET ci == voiceType - 1
                 IN IF CgbCannotSteal(e.cgbChannels[ci], track.priority, trackIndex)
                    THEN [none EXCEPT !.e = e1, !.cgb = ci]
                    ELSE [e |-> [e1 EXCEPT !.cgbChannels[ci] =
                                   CgbNoteStart(e.cgbChannels[ci], voice, voiceType,
                                                track, trackIndex, key, useKey,
                                                velocity, rhythmPan, finalKey)],
                          alloc |-> -2, cgb |-> ci, taken |-> TRUE]
            ELSE IF voice.wav = 0 THEN [none EXCEPT !.e = e1]
            ELSE LET ai == allocate_pcm_channel(e.pcmChannels, e.maxPcmChannels,
                                                track.priority, trackIndex)
                 IN IF ai < 0 THEN [none EXCEPT !.e = e1, !.alloc = -1]
                    ELSE [e |-> [e1 EXCEPT !.pcmChannels[ai] =
                                   PcmNoteStart(e.pcmChannels[ai], voice, track,
                                                trackIndex, key, useKey, velocity,
                                                rhythmPan, finalKey, e.sampleRate,
                                                e.masterVolume)],
                          alloc |-> ai, cgb |-> -1, taken |-> TRUE]

m4a_engine_note_on(e, trackIndex, key, velocity) ==
  NoteOn(e, trackIndex, key, velocity).e

\* the channel test shared by note off and all notes off
StopChannel(ch) == [ch EXCEPT !.status = BitOr(ch.status, CHN_STOP)]

m4a_engine_note_off(e, trackIndex, key) ==
  IF trackIndex < 0 \/ trackIndex >= MAX_TRACKS THEN e
  ELSE LET hit(ch) == /\ IsOn(ch.status) /\ ~IsStop(ch.status)
                      /\ ch.trackIndex = trackIndex /\ ch.midiKey = key
       IN [e EXCEPT
             !.pcmChannels = [i \in PcmIdx |->
                IF hit(e.pcmChannels[i]) THEN StopChannel(e.pcmChannels[i])
                ELSE e.pcmChannels[i]],
             !.cgbChannels = [i \in CgbIdx |->
                IF hit(e.cgbChannels[i]) THEN StopChannel(e.cgbChannels[i])
                ELSE e.cgbChannels[i]]]

m4a_engine_all_notes_off(e, trackIndex) ==
  LET hit(ch) == IsOn(ch.status) /\ ch.trackIndex = trackIndex
  IN [e EXCEPT
        !.pcmChannels = [i \in PcmIdx |->
           IF hit(e.pcmChannels[i]) THEN StopChannel(e.pcmChannels[i])
           ELSE e.pcmChannels[i]],
        !.cgbChannels = [i \in CgbIdx |->
           IF hit(e.cgbChannels[i]) THEN StopChannel(e.cgbChannels[i])
           ELSE e.cgbChannels[i]]]

\* a faulty variant of m4a_engine_all_sound_off that releases a sounding
\* channel and silences it only once it is released
AllSoundOffReleasing(e) ==
  LET Off(ch) == IF IsOn(ch.status) /\ ~IsStop(ch.status) THEN StopChannel(ch)
                 ELSE [ch EXCEPT !.status = 0]
  IN [e EXCEPT
        !.pcmChannels = [i \in PcmIdx |-> Off(e.pcmChannels[i])],
        !.cgbChannels = [i \in CgbIdx |-> Off(e.cgbChannels[i])]]

m4a_engine_all_sound_off(e) ==
  [e EXCEPT
     !.pcmChannels = [i \in PcmIdx |-> [e.pcmChannels[i] EXCEPT !.status = 0]],
     !.cgbChannels = [i \in CgbIdx |-> [e.cgbChannels[i] EXCEPT !.status = 0]]]

\* engine->voiceGroup[program] of the loaded group vg
VoiceGroupEntry(vg, program) == [VoiceGroup(program) EXCEPT !.vg = vg]

m4a_engine_set_voicegroup(e, vg) == [e EXCEPT !.voiceGroup = vg]

\* engine->voiceGroup[program] as the voice editor has left it: tbl holds
\* the entries the editor has overwritten
TableEntry(tbl, vg, program) ==
  IF program \in DOMAIN tbl THEN [tbl[program] EXCEPT !.vg = vg]
  ELSE VoiceGroupEntry(vg, program)

\* m4a_engine_program_change reading the voice table with the edits tbl
ProgramChange(e, tbl, trackIndex, program) ==
  IF trackIndex < 0 \/ trackIndex >= MAX_TRACKS \/ e.voiceGroup = 0 THEN e
  ELSE [e EXCEPT !.tracks[trackIndex].currentProgram = program,
                 !.tracks[trackIndex].currentVoice =
                    TableEntry(tbl, e.voiceGroup, program)]

\* the program change on a voice table no editor has touched
m4a_engine_program_change(e, trackIndex, program) ==
  ProgramChange(e, <<>>, trackIndex, program)

m4a_engine_refresh_voices(e, tbl) ==
  IF e.voiceGroup = 0 THEN e
  ELSE [e EXCEPT !.tracks = [i \in TrackIdx |->
          [e.tracks[i] EXCEPT !.currentVoice =
             TableEntry(tbl, e.voiceGroup, e.tracks[i].currentProgram)]]]

(* ---- m4a_engine.c: refresh of sounding channels ---- *)

\* the frequency refresh_channel_pitches and m4a_lfo_tick give a PCM channel
PcmRefreshFreq(ch, track, sRate) ==
  [ch EXCEPT !.frequency =
     PcmFrequency(WaveData(ch.wav).freq, U8(Max(0, ch.key + track.keyM)),
                  track.pitM, sRate)]

\* a faulty variant of CgbRefreshFreq that stores the new frequency word as
\* computed
CgbRefreshFreqPlain(ch, track) ==
  [ch EXCEPT !.frequency =
     m4a_midi_key_to_cgb_freq(ch.type, U8(Max(0, ch.key + track.keyM)),
                              track.pitM)]

\* the frequency refresh_channel_pitches and m4a_lfo_tick give a CGB channel
CgbRefreshFreq(ch, track) ==
  LET f == m4a_midi_key_to_cgb_freq(ch.type, U8(Max(0, ch.key + track.keyM)),
                                    track.pitM)
  IN [ch EXCEPT !.frequency =
        IF ch.type = 4 THEN BitOr(f, BitAnd(ch.frequency, 8)) ELSE f]

refresh_channel_pitches(e, trackIndex) ==
  LET track == e.tracks[trackIndex]
  IN [e EXCEPT
        !.pcmChannels = [i \in PcmIdx |->
           LET ch == e.pcmChannels[i]
           IN IF IsOn(ch.status) /\ ch.trackIndex = trackIndex /\ ch.wav # 0
              THEN PcmRefreshFreq(ch, track, e.sampleRate) ELSE ch],
        !.cgbChannels = [i \in CgbIdx |->
           LET ch == e.cgbChannels[i]
           IN IF IsOn(ch.status) /\ ch.trackIndex = trackIndex
              THEN CgbRefreshFreq(ch, track) ELSE ch]]

refresh_volumes(e, trackIndex) ==
  LET track == m4a_track_vol_pit_set(e.tracks[trackIndex])
  IN [e EXCEPT
        !.tracks[trackIndex] = track,
        !.pcmChannels = [i \in PcmIdx |->
           LET ch == e.pcmChannels[i]
           IN IF IsOn(ch.status) /\ ch.trackIndex = trackIndex
              THEN chn_vol_set(ch, track) ELSE ch],
        !.cgbChannels = [i \in CgbIdx |->
           LET ch == e.cgbChannels[i]
           IN IF IsOn(ch.status) /\ ch.trackIndex = trackIndex
              THEN m4a_cgb_mod_vol(chn_vol_set(ch, track)) ELSE ch]]

\* a faulty variant of m4a_engine_pitch_bend that stores the bend without
\* recomputing the track's pitch
PitchBendStored(e, trackIndex, bend) ==
  IF trackIndex < 0 \/ trackIndex >= MAX_TRACKS THEN e
  ELSE [e EXCEPT !.tracks[trackIndex].bend = S8(Sar(bend, 7))]

\* a faulty variant of m4a_engine_pitch_bend that reduces the track index
\* modulo MAX_TRACKS instead of rejecting it
PitchBendWrapped(e, trackIndex, bend) ==
  LET t == trackIndex % MAX_TRACKS
      t1 == [e.tracks[t] EXCEPT !.bend = S8(Sar(bend, 7))]
  IN refresh_channel_pitches(
       [e EXCEPT !.tracks[t] = m4a_track_vol_pit_set(t1)], t)

m4a_engine_pitch_bend(e, trackIndex, bend) ==
  IF trackIndex < 0 \/ trackIndex >= MAX_TRACKS THEN e
  ELSE LET t1 == [e.tracks[trackIndex] EXCEPT !.bend = S8(Sar(bend, 7))]
       IN refresh_channel_pitches(
            [e EXCEPT !.tracks[trackIndex] = m4a_track_vol_pit_set(t1)],
            trackIndex)

RECURSIVE SongVolumeFrom(_, _, _)
SongVolumeFrom(e, volume, i) ==
  IF i >= MAX_TRACKS THEN e
  ELSE LET v == U8((e.tracks[i].rawVolume * volume) \div MAX_SONG_VOLUME)
       IN SongVolumeFrom(refresh_volumes([e EXCEPT !.tracks[i].volume = v], i),
                         volume, i + 1)

m4a_engine_set_song_volume(e, volume) ==
  SongVolumeFrom([e EXCEPT !.songMasterVolume = volume], volume, 0)

m4a_engine_cc(e, trackIndex, cc, value) ==
  IF trackIndex < 0 \/ trackIndex >= MAX_TRACKS THEN e
  ELSE CASE cc = 1 ->
              IF value = 0
              THEN [e EXCEPT !.tracks[trackIndex].mod = value,
                             !.tracks[trackIndex].lfoSpeedC = 0,
                             !.tracks[trackIndex].modM = 0]
              ELSE [e EXCEPT !.tracks[trackIndex].mod = value]
         [] cc = 7 ->
              refresh_volumes(
                [e EXCEPT !.tracks[trackIndex].rawVolume = value,
                          !.tracks[trackIndex].volume =
                             U8((value * e.songMasterVolume) \div MAX_SONG_VOLUME)],
                trackIndex)
         [] cc = 10 ->
              refresh_volumes(
                [e EXCEPT !.tracks[trackIndex].pan = S8(value - 64)], trackIndex)
         [] cc = 20 ->
              LET t1 == [e.tracks[trackIndex] EXCEPT !.bendRange = value]
              IN refresh_channel_pitches(
                   [e EXCEPT !.tracks[trackIndex] = m4a_track_vol_pit_set(t1)],
                   trackIndex)
         [] cc = 21 -> [e EXCEPT !.tracks[trackIndex].lfoSpeed = value]
         [] cc = 123 -> m4a_engine_all_notes_off(e, trackIndex)
         [] cc = 120 -> m4a_engine_all_sound_off(e)
         [] OTHER -> e

(* ---- m4a_engine.c: LFO and engine tick ---- *)

\* the body of m4a_lfo_tick for track i
LfoTrack(e, i) ==
  LET track == e.tracks[i]
  IN IF track.lfoSpeed = 0 \/ track.mod = 0 THEN e
     ELSE IF track.lfoDelayC > 0
     THEN [e EXCEPT !.tracks[i].lfoDelayC = track.lfoDelayC - 1]
     ELSE
       LET lfoPos == U8(track.lfoSpeedC + track.lfoSpeed)
           lfoVal == IF S8(lfoPos - 64) < 0 THEN S8(lfoPos) ELSE S8(128 - lfoPos)
           newModM == S8(Sar(track.mod * lfoVal, 6))
           t1 == [track EXCEPT !.lfoSpeedC = lfoPos]
       IN IF newModM = track.modM THEN [e EXCEPT !.tracks[i] = t1]
          ELSE
            LET t2 == m4a_track_vol_pit_set([t1 EXCEPT !.modM = newModM])
            IN [e EXCEPT
                  !.tracks[i] = t2,
                  !.pcmChannels = [j \in PcmIdx |->
                     LET ch == e.pcmChannels[j]
                     IN IF IsOn(ch.status) /\ ch.trackIndex = i
                        THEN LET c1 == chn_vol_set(ch, t2)
                             IN IF t2.modT = 0 /\ ch.wav # 0
                                THEN PcmRefreshFreq(c1, t2, e.sampleRate) ELSE c1
                        ELSE ch],
                  !.cgbChannels = [j \in CgbIdx |->
                     LET ch == e.cgbChannels[j]
                     IN IF IsOn(ch.status) /\ ch.trackIndex = i
                        THEN LET c1 == m4a_cgb_mod_vol(chn_vol_set(ch, t2))
                             IN IF t2.modT = 0 THEN CgbRefreshFreq(c1, t2) ELSE c1
                        ELSE ch]]

RECURSIVE LfoFrom(_, _)
LfoFrom(e, i) == IF i >= MAX_TRACKS THEN e ELSE LfoFrom(LfoTrack(e, i), i + 1)

m4a_lfo_tick(e) == LfoFrom(e, 0)

\* while (tempoC >= 150) { tempoC -= 150; m4a_lfo_tick(engine); }
RECURSIVE TempoLoop(_)
TempoLoop(e) ==
  IF e.tempoC >= 150
  THEN TempoLoop(m4a_lfo_tick([e EXCEPT !.tempoC = e.tempoC - 150]))
  ELSE e

\* the gate-time countdown of m4a_engine_tick
GateTime(ch) ==
  IF ch.gateTime > 0
  THEN [ch EXCEPT !.gateTime = ch.gateTime - 1,
                  !.status = IF ch.gateTime = 1 THEN BitOr(ch.status, CHN_STOP)
                             ELSE ch.status]
  ELSE ch

\* m4a_engine_tick; u[i] is the outcome of the indeterminate test of
\* m4a_cgb_channel_tick for CGB channel i
m4a_engine_tick(e, u) ==
  LET c15 == IF e.c15 > 0 THEN e.c15 - 1 ELSE 14
      e1 == [e EXCEPT
               !.c15 = c15,
               !.pcmChannels = [i \in PcmIdx |->
                  LET ch == e.pcmChannels[i]
                  IN IF IsOn(ch.status)
                     THEN m4a_pcm_channel_tick(GateTime(ch), e.masterVolume)
                     ELSE ch],
               !.cgbChannels = [i \in CgbIdx |->
                  LET ch == e.cgbChannels[i]
                  IN IF IsOn(ch.status)
                     THEN m4a_cgb_channel_tick(GateTime(ch), c15, u[i])
                     ELSE ch],
               !.tempoC = (e.tempoC + e.tempoI) % 65536]
  IN TempoLoop(e1)

\* one iteration of the sample loop of m4a_engine_process, first half: the
\* engine tick when the tick accumulator has run over
ProcessTick(e, tick, u) == IF tick THEN m4a_engine_tick(e, u) ELSE e

\* second half: the render step of the sounding PCM channels
ProcessRender(e) ==
  [e EXCEPT !.pcmChannels = [i \in PcmIdx |->
     IF IsOn(e.pcmChannels[i].status)
     THEN m4a_pcm_channel_render(e.pcmChannels[i])
     ELSE e.pcmChannels[i]]]

ProcessSample(e, tick, u) == ProcessRender(ProcessTick(e, tick, u))

(* ---- m4a_engine.c, m4a_reverb.c: m4a_engine_process ---- *)

\* engine->samplesPerTick = sampleRate / VBLANK_RATE at the GBA rate, the
\* float 224.00067138671875 in units of 2^-16; the tick accumulator is kept
\* in the same units (its values are multiples of 2^-16 below 256, on which
\* the float additions and subtractions of the code are exact)
samplesPerTick == 14680108

\* bufferSize and frameSize of the reverb at the GBA rate
ReverbBufferSize == 1584
ReverbFrameSize == 226

\* the sample bytes of the loaded waves
SampleAt(wav, i) == S8(wav * 37 + i * 53)

\* what m4a_pcm_channel_render adds to mixL and mixR
PcmMix(ch) ==
  IF ~IsOn(ch.status) \/ BitAnd(ch.status, CHN_START) # 0
  THEN [l |-> 0, r |-> 0]
  ELSE LET s0 == SampleAt(ch.wav, ch.currentPointer)
           s1 == SampleAt(ch.wav, ch.currentPointer + 1)
           sample == IF BitAnd(ch.type, VOICE_TYPE_FIX) # 0 THEN s0
                     ELSE s0 + Sar((s1 - s0) * ch.fw, 23)
       IN [l |-> Sar(sample * ch.envelopeVolumeLeft, 8),
           r |-> Sar(sample * ch.envelopeVolumeRight, 8)]

\* mixL and mixR after the PCM channels from i on have been rendered
RECURSIVE PcmMixFrom(_, _)
PcmMixFrom(e, i) ==
  IF i >= MAX_PCM_CHANNELS THEN [l |-> 0, r |-> 0]
  ELSE CHOOSE mix \in
         {[l |-> m.l + rest.l, r |-> m.r + rest.r] :
            m \in {IF IsOn(e.pcmChannels[i].status) THEN PcmMix(e.pcmChannels[i])
                   ELSE [l |-> 0, r |-> 0]},
            rest \in {PcmMixFrom(e, i + 1)}} : TRUE

\* m4a_reverb_process: the delay buffer is the sequence of the pairs written
\* so far (positions not yet written hold 0)
m4a_reverb_process(rv, mix) ==
  IF rv.amount = 0 THEN [rv |-> rv, mix |-> mix]
  ELSE
    LET Tap(q) == IF q < Len(rv.buffer) THEN rv.buffer[q + 1]
                  ELSE [l |-> 0, r |-> 0]
        otherPos == (rv.pos + ReverbFrameSize) % ReverbBufferSize
        sum == Tap(rv.pos).l + Tap(rv.pos).r + Tap(otherPos).l + Tap(otherPos).r
        wet == Sar(sum * rv.amount, 9)
        Written(out) == [l |-> Max(-128, Min(127, out.l)),
                         r |-> Max(-128, Min(127, out.r))]
        Result(out) ==
          [rv |-> [rv EXCEPT
                     !.buffer = IF rv.pos < Len(rv.buffer)
                                THEN [rv.buffer EXCEPT ![rv.pos + 1] = Written(out)]
                                ELSE Append(rv.buffer, Written(out)),
                     !.pos = IF rv.pos + 1 >= ReverbBufferSize THEN 0
                             ELSE rv.pos + 1],
           mix |-> out]
    IN CHOOSE res \in
         {Result(out) : out \in {[l |-> mix.l + wet, r |-> mix.r + wet]}} : TRUE

\* the head of the sample loop of m4a_engine_process: the tick accumulator
\* and the engine tick when it has run over. No CGB channel is in an
\* indeterminate tick in the engines this is applied to.
ProcessAccumulate(e) ==
  LET acc == e.tickAccumulator + 65536
      due == acc >= samplesPerTick
  IN [ProcessTick(e, due, [i \in CgbIdx |-> FALSE]) EXCEPT
        !.tickAccumulator = IF due THEN acc - samplesPerTick ELSE acc]

\* the rest of the loop body for the mix r.mix the reverb has returned: the
\* engine after it and the output frame. The float state of the analog
\* filter is represented by the sequence of the frames fed to it, of which
\* it is a function; a filtered output frame by the filter state it is
\* read from.
ProcessOutput(e1, r) ==
  IF e1.analogFilter
  THEN [e |-> [ProcessRender(e1) EXCEPT !.reverb = r.rv,
                                        !.lowPass = Append(e1.lowPass, r.mix)],
        out |-> [filtered |-> Append(e1.lowPass, r.mix)]]
  ELSE [e |-> [ProcessRender(e1) EXCEPT !.reverb = r.rv],
        out |-> [plain |-> r.mix]]

\* the mix of the PCM channels and the reverb
ProcessMix(e1) ==
  CHOOSE it \in
    {ProcessOutput(e1, r) :
       r \in {m4a_reverb_process(e1.reverb, PcmMixFrom(e1, 0))}} : TRUE

\* one iteration of the sample loop
ProcessIteration(e) ==
  CHOOSE it \in {ProcessMix(e1) : e1 \in {ProcessAccumulate(e)}} : TRUE

\* the sample loop: r holds the engine and the frames written so far
RECURSIVE ProcessRun(_, _)
ProcessRun(r, n) ==
  IF n <= 0 THEN r
  ELSE CHOOSE done \in
         {ProcessRun([e |-> it.e, out |-> Append(r.out, it.out)], n - 1) :
            it \in {ProcessIteration(r.e)}} : TRUE

\* a faulty variant of m4a_engine_process that starts its tick accumulator
\* at 0 in every call
ProcessFromZero(e, numSamples) ==
  ProcessRun([e |-> [e EXCEPT !.tickAccumulator = 0], out |-> <<>>], numSamples)

\* m4a_engine_process(engine, outL, outR, numSamples): the engine after the
\* call and the frames it has written
m4a_engine_process(e, numSamples) == ProcessRun([e |-> e, out |-> <<>>], numSamples)

(* ---- state ---- *)

\* engine:  the M4AEngine
\* data:    the M4APluginData fields next to the engine
\* freed:   the LoadedVoiceGroup objects voicegroup_free has released
\* audioPc: where the audio thread is ("idle", or "process" inside
\*          plugin_process)
\* raced:   a main-thread handler has written the engine while the audio
\*          thread was inside plugin_process
\* parse:   the loader: the project tree it reads, how far voicegroup_load
\*          has come, and its chain of parse_voicegroup_file activations
\* table:   the entries of the loaded voice table that the voice editor has
\*          overwritten, by program number
\* last:    the last operation: its arguments, what the channels were before
\*          it, which channels it changed, the voicegroup it freed and
\*          whether the engine still held pointers into that group, and
\*          whether only pitch-insensitive events came since a pitch bend
\*          of 0
VARIABLES engine, data, freed, audioPc, raced, parse, table, last

vars == <<engine, data, freed, audioPc, raced, parse, table, last>>

\* inputs of the operations
Tracks == 0 .. (MaxTrackIn - 1)
Keys == {60}
Velocities == {20}

\* M4APluginData after plugin_init without a configuration file; names of
\* voicegroups are numbers, 0 is the empty string, and gui tells that the
\* GUI exists
InitData ==
  [activated |-> FALSE, loadedVg |-> 0, voicegroupName |-> 0,
   masterVolume |-> 15, songMasterVolume |-> MAX_SONG_VOLUME,
   maxPcmChannels |-> 5, gui |-> FALSE]

\* the loader at rest
NoParse == [project |-> <<>>, status |-> "idle", stack |-> <<>>]

\* what the record of an operation keeps of a channel
Seen(ch) ==
  [status |-> ch.status, priority |-> ch.priority, trackIndex |-> ch.trackIndex]

\* the render step of channel ch wraps around the loop
Wraps(ch) ==
  /\ IsOn(ch.status) /\ BitAnd(ch.status, CHN_START) = 0
  /\ Shr(ch.fw + ch.frequency, 23) > 0
  /\ Shr(ch.fw + ch.frequency, 23) >= ch.count
  /\ ch.isLoop /\ ch.loopLen > 0

\* the channels whose render step wraps, each with the samples it advances
Wrapping(e) ==
  {<<i, Shr(e.pcmChannels[i].fw + e.pcmChannels[i].frequency, 23)>> :
     i \in {j \in PcmIdx : Wraps(e.pcmChannels[j])}}

\* the record of an operation that led from engine e to engine e2; r is what
\* NoteOn reports of a note-on (NoNote elsewhere)
NoNote == [alloc |-> -2, cgb |-> -1, taken |-> FALSE]

Op(name, e, e2, trackIndex, key, r) ==
  [op |-> name, trackIndex |-> trackIndex, key |-> key, alloc |-> r.alloc,
   cgbIndex |-> r.cgb, taken |-> r.taken,
   priority |-> IF trackIndex \in TrackIdx THEN e.tracks[trackIndex].priority
                ELSE 0,
   maxPcmChannels |-> e.maxPcmChannels,
   pcm |-> [i \in PcmIdx |-> Seen(e.pcmChannels[i])],
   cgb |-> [i \in CgbIdx |-> Seen(e.cgbChannels[i])],
   pcmChanged |-> {i \in PcmIdx : e2.pcmChannels[i] # e.pcmChannels[i]},
   cgbChanged |-> {i \in CgbIdx : e2.cgbChannels[i] # e.cgbChannels[i]},
   wrapped |-> {}, freedVg |-> 0, held |-> FALSE, loadFailed |-> FALSE,
   vgBefore |-> e.voiceGroup, bent0 |-> FALSE]

\* the part of the state the engine operations leave alone
PluginUnchanged == UNCHANGED <<data, freed, audioPc, raced, parse, table>>

(* ---- engine operations as actions ---- *)

NoteOnAct ==
  \E t \in Tracks, k \in Keys, v \in Velocities :
    LET r == NoteOn(engine, t, k, v)
    IN /\ engine' = r.e
       /\ last' = Op("note_on", engine, r.e, t, k, r)
       /\ PluginUnchanged

NoteOffAct ==
  \E t \in Tracks, k \in Keys :
    /\ engine' = m4a_engine_note_off(engine, t, k)
    /\ last' = Op("note_off", engine, engine', t, k, NoNote)
    /\ PluginUnchanged

\* the CGB channels whose tick reaches step_complete by a goto from outside
\* the block that declares doubleStep and steps
CgbIndeterminate(ch) ==
  /\ IsOn(ch.status)
  /\ \/ BitAnd(ch.status, CHN_START) # 0 /\ ~IsStop(ch.status)
     \/ /\ BitAnd(ch.status, CHN_START + CHN_IEC) = 0
        /\ IsStop(GateTime(ch).status)
        /\ BitAnd(ch.status, CHN_ENV_MASK) # 0

\* the outcomes of the indeterminate tests of one engine tick
TickOutcomes(e) ==
  {u \in [CgbIdx -> BOOLEAN] :
     \A i \in CgbIdx : u[i] => CgbIndeterminate(e.cgbChannels[i])}

TickAct ==
  \E u \in TickOutcomes(engine) :
    /\ engine' = m4a_engine_tick(engine, u)
    /\ last' = Op("tick", engine, engine', 0, 0, NoNote)
    /\ PluginUnchanged

AllSoundOffAct ==
  /\ engine' = m4a_engine_all_sound_off(engine)
  /\ last' = Op("all_sound_off", engine, engine', 0, 0, NoNote)
  /\ PluginUnchanged

\* one sample of m4a_engine_process; the engine tick falls on the samples
\* where the tick accumulator runs over
RenderAct ==
  \E tick \in BOOLEAN, u \in TickOutcomes(engine) :
    /\ (~tick => \A i \in CgbIdx : ~u[i])
    /\ engine' = ProcessSample(engine, tick, u)
    /\ last' = [Op("render", engine, engine', 0, 0, NoNote) EXCEPT
                  !.wrapped = Wrapping(ProcessTick(engine, tick, u))]
    /\ PluginUnchanged

(* ---- PCM channel allocation (engine with PCM voices on every track) ---- *)

\* the engine after m4a_engine_init, m4a_engine_set_voicegroup and, on the
\* tracks of the model, a program change to program and a volume CC of 127,
\* with the client's settings of maxPcmChannels and of the tracks' priority
RECURSIVE SetUpTracks(_, _, _)
SetUpTracks(e, program, t) ==
  IF t >= MaxTrackIn THEN e
  ELSE SetUpTracks(
         m4a_engine_cc(m4a_engine_program_change(e, t, program[t]), t, 7, 127),
         program, t + 1)

EngineWith(sRate, maxCh, prio, program) ==
  LET e == SetUpTracks(m4a_engine_set_voicegroup(m4a_engine_init(sRate), 1),
                       program, 0)
  IN [e EXCEPT !.maxPcmChannels = maxCh,
               !.tracks = [t \in TrackIdx |->
                  IF t \in Tracks THEN [e.tracks[t] EXCEPT !.priority = prio[t]]
                  ELSE e.tracks[t]]]

InitRest ==
  /\ data = InitData
  /\ freed = {}
  /\ audioPc = "idle"
  /\ raced = FALSE
  /\ parse = NoParse
  /\ table = <<>>

\* the tracks' priority as the client of the engine has set it: track 1 is
\* the high-priority track, the other tracks share priority 0
TrackPriority == [t \in Tracks |-> IF t = 1 THEN MaxPrio ELSE 0]

InitAlloc ==
  /\ engine = EngineWith(pcmFreq, MaxChan, TrackPriority, [t \in Tracks |-> 1])
  /\ last = Op("init", engine, engine, 0, 0, NoNote)
  /\ InitRest

NextAlloc == NoteOnAct \/ NoteOffAct \/ AllSoundOffAct

SpecAlloc == InitAlloc /\ [][NextAlloc]_vars

(* ---- properties of the PCM channel allocation ---- *)

\* the channels allocate_pcm_channel looked at
InRange == 0 .. (last.maxPcmChannels - 1)

\* sounding and not yet released
Active(ch) == IsOn(ch.status) /\ ~IsStop(ch.status)

\* the last operation was a note-on that reached allocate_pcm_channel
PcmAsked == last.op = "note_on" /\ last.alloc # -2

\* the priority of the note of the last note-on
NewPriority == last.priority

\* the PCM channels before the last operation
Before == last.pcm

AllActiveAt(p) ==
  \A i \in InRange : Active(Before[i]) /\ Before[i].priority = p

HighestTrack(a) ==
  \A j \in InRange : Before[a].trackIndex >= Before[j].trackIndex

C6_NoStealFromHigher ==
  PcmAsked =>
    /\ last.pcmChanged \subseteq {last.alloc}
    /\ last.alloc >= 0 /\ Active(Before[last.alloc])
         => Before[last.alloc].priority <= NewPriority
    /\ (\A i \in InRange :
          Active(Before[i]) /\ Before[i].priority > NewPriority)
         => last.alloc = -1 /\ last.pcmChanged = {}

\* a note met only active channels of higher priority
C6_Witness ==
  /\ PcmAsked
  /\ \A i \in InRange :
       Active(Before[i]) /\ Before[i].priority > NewPriority
  /\ last.alloc = -1

Stopping(ch) == IsOn(ch.status) /\ IsStop(ch.status)

\* C7: with no free channel and at least one stopping channel in range, the
\* note-on takes a stopping channel: one of lowest priority and, among those,
\* of highest track index.
C7_StoppingFirst ==
  (/\ PcmAsked
   /\ \A i \in InRange : IsOn(Before[i].status)
   /\ \E i \in InRange : Stopping(Before[i]))
  => /\ last.alloc >= 0
     /\ Stopping(Before[last.alloc])
     /\ \A j \in InRange :
          Stopping(Before[j]) =>
            /\ Before[last.alloc].priority <= Before[j].priority
            /\ Before[j].priority = Before[last.alloc].priority
                 => Before[last.alloc].trackIndex >= Before[j].trackIndex

\* a note of no higher priority chose between stopping channels of different
\* priority
C7_Witness ==
  /\ PcmAsked
  /\ \A i \in InRange : IsOn(Before[i].status)
  /\ last.alloc >= 0
  /\ \E j \in InRange :
       /\ Stopping(Before[j])
       /\ Before[j].priority > Before[last.alloc].priority
  /\ NewPriority <= Before[last.alloc].priority

(* ---- CGB note stealing (engine with a square-wave voice on every track) ---- *)

InitCgb ==
  /\ engine = EngineWith(pcmFreq, MaxChan, TrackPriority, [t \in Tracks |-> 3])
  /\ last = Op("init", engine, engine, 0, 0, NoNote)
  /\ InitRest

NextCgb == NoteOnAct \/ NoteOffAct \/ TickAct

SpecCgb == InitCgb /\ [][NextCgb]_vars

\* the last operation was a note-on for a CGB channel
CgbAsked == last.op = "note_on" /\ last.cgbIndex >= 0

\* the channel the note addressed, as it was before the note-on
Incumbent == last.cgb[last.cgbIndex]

\* the envelope stage of a sounding channel
Stage(ch) ==
  IF IsStop(ch.status) THEN "release"
  ELSE IF BitAnd(ch.status, CHN_IEC) # 0 THEN "echo"
  ELSE IF BitAnd(ch.status, CHN_ENV_MASK) = CHN_ENV_ATTACK THEN "attack"
  ELSE IF BitAnd(ch.status, CHN_ENV_MASK) = CHN_ENV_DECAY THEN "decay"
  ELSE "sustain"

\* the priority rule of the claim: the incumbent's priority is lower, or it
\* is equal and the incumbent's track index is not below the new note's
MayReplace ==
  \/ Incumbent.priority < NewPriority
  \/ Incumbent.priority = NewPriority /\ Incumbent.trackIndex >= last.trackIndex

\* C8 as stated: whatever the envelope stage of a sounding incumbent, a CGB
\* note-on replaces it only if the incumbent's priority is at most the new
\* note's, equal priorities being decided by the track indices.
C8_AsStated ==
  CgbAsked /\ IsOn(Incumbent.status) /\ last.taken => MayReplace

\* C8, amended: an incumbent in its attack, decay, sustain or pseudo-echo
\* stage is replaced exactly when its priority is lower than the new note's,
\* or equal with a track index not below the new note's; an incumbent that
\* is releasing (CHN_STOP set) or silent is always replaced.
C8_ReplaceRule ==
  CgbAsked =>
    IF Active(Incumbent) THEN last.taken <=> MayReplace ELSE last.taken

\* a note of lower priority has replaced a releasing incumbent
C8_Witness ==
  /\ CgbAsked
  /\ Stage(Incumbent) = "release" /\ IsOn(Incumbent.status)
  /\ Incumbent.priority > NewPriority
  /\ last.taken

(* ---- PCM playback (engine with one PCM channel in use) ---- *)

\* the programs of the tracks: a resampled looping voice, a fixed-frequency
\* looping voice, a fixed-frequency one-shot voice, and beyond them a voice
\* whose sample has an empty loop
PcmProgram == [t \in Tracks |-> IF t = 0 THEN 6 ELSE IF t = 1 THEN 2
                                ELSE IF t = 2 THEN 1 ELSE 5]

\* the last of the first three tracks plays the one-shot voice or a voice
\* without a sample
InitPcm ==
  /\ \E p \in {1, 4} :
       engine = EngineWith(pcmFreq, 1, TrackPriority,
                           [PcmProgram EXCEPT ![2] = p])
  /\ last = Op("init", engine, engine, 0, 0, NoNote)
  /\ InitRest

NextPcm == NoteOnAct \/ NoteOffAct \/ RenderAct

SpecPcm == InitPcm /\ [][NextPcm]_vars

\* C9: every PCM channel that is on has a sample, and its current pointer
\* lies within [wav.data, wav.data + wav.size] (pointers are offsets from
\* wav.data).
C9_PointerInSample ==
  \A i \in PcmIdx :
    IsOn(engine.pcmChannels[i].status) =>
      /\ engine.pcmChannels[i].wav # 0
      /\ engine.pcmChannels[i].currentPointer >= 0
      /\ engine.pcmChannels[i].currentPointer
           <= WaveData(engine.pcmChannels[i].wav).size

\* a looping channel plays on at the start of its loop after a wrap
C9_Witness ==
  /\ last.op = "render"
  /\ \E w \in last.wrapped :
       /\ IsOn(engine.pcmChannels[w[1]].status)
       /\ engine.pcmChannels[w[1]].currentPointer
            = engine.pcmChannels[w[1]].loopStart
       /\ engine.pcmChannels[w[1]].loopStart > 0

\* C10: right after a render step that wraps a looping channel, the
\* channel's remaining count is at least 1 and at most its loop length.
C10_CountAfterWrap ==
  last.op = "render" =>
    \A w \in last.wrapped :
      /\ engine.pcmChannels[w[1]].count >= 1
      /\ engine.pcmChannels[w[1]].count <= engine.pcmChannels[w[1]].loopLen

\* a render step has wrapped a channel that advanced by more than its loop
\* length
C10_Witness ==
  /\ last.op = "render"
  /\ \E w \in last.wrapped : w[2] > engine.pcmChannels[w[1]].loopLen

(* ---- m4a_plugin.c: the plugin around the engine ---- *)

\* the voicegroups of the project the plugin is pointed at; any other name
\* is not found by find_voicegroup
PluginFiles == {1}

\* names the GUI and saved states supply
VgNames == 1 .. 2

\* song volumes the GUI and saved states supply
SongVolumes == {MAX_SONG_VOLUME, 64}

\* find_voicegroup: the name has a file among files
find_voicegroup(files, name) == name \in files

\* the LoadedVoiceGroup the next successful voicegroup_load allocates: the
\* groups are numbered in the order of their allocation
NewVg == Cardinality(freed) + (IF data.loadedVg # 0 THEN 1 ELSE 0) + 1

\* the voice carries a pointer to an object its voicegroup owns: WaveData,
\* programmable wave, sub-voicegroup or key-split table
VoicePointsInto(v, vg) ==
  /\ vg # 0 /\ v.vg = vg
  /\ \/ v.keySplitTable # 0
     \/ v.wav # 0 /\ (IsSplit(v.type)
                      \/ BitAnd(v.type, VOICE_TYPE_CGB_MASK) \in {0, 3})

\* the engine holds a pointer into voicegroup vg in a sounding channel or in
\* a track's current voice
HoldsPointerInto(e, vg) ==
  \/ \E i \in PcmIdx : IsOn(e.pcmChannels[i].status) /\ e.pcmChannels[i].wavVg = vg
  \/ \E i \in CgbIdx : IsOn(e.cgbChannels[i].status) /\ e.cgbChannels[i].wavVg = vg
  \/ \E t \in TrackIdx : VoicePointsInto(e.tracks[t].currentVoice, vg)

\* the free-and-load sequence shared by plugin_activate and state_load:
\* voicegroup_free of the loaded group, voicegroup_load of name, and
\* m4a_engine_set_voicegroup when the load succeeded
Reload(e, d, name) ==
  LET ok == find_voicegroup(PluginFiles, name)
      vg == IF ok THEN NewVg ELSE 0
  IN [e |-> IF ok THEN m4a_engine_set_voicegroup(e, vg) ELSE e,
      loadedVg |-> vg, freedVg |-> d.loadedVg, failed |-> ~ok]

\* the engine settings the plugin copies from its data
WithSettings(e, d) ==
  [e EXCEPT !.masterVolume = d.masterVolume,
            !.songMasterVolume = d.songMasterVolume,
            !.maxPcmChannels = d.maxPcmChannels]

\* the audio thread is inside plugin_process
InProcess == audioPc = "process"

\* the record of a plugin operation: the voicegroup it freed, whether the
\* engine held pointers into it at that moment, whether its load failed and
\* the engine's voice table before the operation
PluginOp(name, freedVg, held, loadFailed, vgBefore) ==
  [Op(name, m4a_engine_init(pcmFreq), m4a_engine_init(pcmFreq), 0, 0, NoNote)
     EXCEPT !.freedVg = freedVg, !.held = held, !.loadFailed = loadFailed,
            !.vgBefore = vgBefore]

\* the record of a plugin operation that frees and loads nothing
Plain(name) == PluginOp(name, 0, FALSE, FALSE, 0)

gui_create ==
  /\ ~data.gui
  /\ data' = [data EXCEPT !.gui = TRUE]
  /\ last' = Plain("gui_create")
  /\ UNCHANGED <<engine, freed, audioPc, raced, parse, table>>

\* the host activates a plugin that is not active
plugin_activate ==
  /\ ~data.activated /\ ~InProcess
  /\ LET e0 == WithSettings(m4a_engine_init(pcmFreq), data)
         load == data.voicegroupName # 0
         r == Reload(e0, data, data.voicegroupName)
     IN /\ load => NewVg <= MaxLoads
        /\ engine' = IF load THEN r.e ELSE e0
        /\ data' = [data EXCEPT !.activated = TRUE,
                      !.loadedVg = IF load THEN r.loadedVg ELSE @]
        /\ freed' = IF load /\ r.freedVg # 0 THEN freed \cup {r.freedVg}
                    ELSE freed
        /\ last' = PluginOp("plugin_activate", IF load THEN r.freedVg ELSE 0,
                             load /\ HoldsPointerInto(e0, r.freedVg),
                             load /\ r.failed, e0.voiceGroup)
  /\ UNCHANGED <<audioPc, raced, parse, table>>

\* the host deactivates an active plugin after it has stopped processing
plugin_deactivate ==
  /\ data.activated /\ ~InProcess
  /\ data' = [data EXCEPT !.activated = FALSE]
  /\ last' = Plain("plugin_deactivate")
  /\ UNCHANGED <<engine, freed, audioPc, raced, parse, table>>

\* load_config_file: an integer setting is atoi(value) clamped to lo .. hi
\* and stored in a uint8_t
ConfigSetting(v, lo, hi) == U8(IF v < lo THEN lo ELSE IF v > hi THEN hi ELSE v)

\* a faulty variant of StateMaxChannels that stores the stream's byte as read
StateMaxChannelsRaw(byte) == IF byte < 0 THEN 5 ELSE byte

\* a faulty variant of StateMaxChannels that takes the lowest channel count
\* when the stream has no byte left
StateMaxChannelsLowest(byte) ==
  IF byte < 1 THEN 1
  ELSE IF byte > MAX_PCM_CHANNELS THEN MAX_PCM_CHANNELS
  ELSE byte

\* state_load: maxChannelsByte starts at 5, is overwritten when the stream
\* still has a byte (byte >= 0), and is clamped to 1 .. MAX_PCM_CHANNELS
StateMaxChannels(byte) ==
  LET maxChannelsByte == IF byte < 0 THEN 5 ELSE byte
  IN IF maxChannelsByte < 1 THEN 1
     ELSE IF maxChannelsByte > MAX_PCM_CHANNELS THEN MAX_PCM_CHANNELS
     ELSE maxChannelsByte

\* state_load, on the main thread, of a stream that carries the voicegroup
\* name, the master volume byte mv, the song volume byte vol and the
\* maxPcmChannels byte ch (ch < 0: the stream ends before that byte)
StateLoadStream(name, mv, vol, ch) ==
  LET d1 == [data EXCEPT !.voicegroupName = name, !.masterVolume = mv,
                         !.songMasterVolume = vol,
                         !.maxPcmChannels = StateMaxChannels(ch)]
      load == data.activated /\ name # data.voicegroupName /\ name # 0
      r == Reload(engine, data, name)
      e1 == IF load THEN r.e ELSE engine
  IN /\ load => NewVg <= MaxLoads
     /\ engine' = IF data.activated THEN WithSettings(e1, d1) ELSE engine
     /\ data' = [d1 EXCEPT !.loadedVg = IF load THEN r.loadedVg ELSE @]
     /\ freed' = IF load /\ r.freedVg # 0 THEN freed \cup {r.freedVg}
                 ELSE freed
     /\ raced' = (raced \/ (data.activated /\ InProcess))
     /\ last' = PluginOp("state_load", IF load THEN r.freedVg ELSE 0,
                          load /\ HoldsPointerInto(engine, r.freedVg),
                          load /\ r.failed, engine.voiceGroup)
     /\ UNCHANGED <<audioPc, parse, table>>

\* state_load of the streams that carry the plugin's master volume and
\* channel count
state_load ==
  \E name \in VgNames, vol \in SongVolumes :
    StateLoadStream(name, data.masterVolume, vol, data.maxPcmChannels)

\* timer_on_timer, on the main thread, when m4a_gui_poll_changes reports the
\* settings gs: the song volume, the name of a requested reload (0: none),
\* the master volume and the channel count of the GUI
TimerSettings(vol, gsName, gsMasterVolume, gsMaxPcmChannels) ==
  LET reloadVoicegroup == gsName # 0
      name == gsName
  IN
  /\ data.gui
  /\ engine' = IF data.activated
               THEN m4a_engine_set_song_volume(
                      [engine EXCEPT !.masterVolume = gsMasterVolume,
                                     !.maxPcmChannels = gsMaxPcmChannels],
                      vol)
               ELSE engine
  /\ data' = [data EXCEPT !.songMasterVolume = vol,
                !.masterVolume = gsMasterVolume,
                !.maxPcmChannels = gsMaxPcmChannels,
                !.voicegroupName = IF reloadVoicegroup THEN name ELSE @]
  /\ raced' = (raced \/ (data.activated /\ InProcess))
  /\ last' = Plain("timer_on_timer")
  /\ UNCHANGED <<freed, audioPc, parse, table>>

\* timer_on_timer when the user changed the song volume or asked for a
\* reload; the GUI holds the master volume and the channel count the plugin
\* gave it
timer_on_timer ==
  \E vol \in SongVolumes, gsName \in {0} \cup VgNames :
    TimerSettings(vol, gsName, data.masterVolume, data.maxPcmChannels)

\* plugin_process, entry: the call returns at once on a plugin that is not
\* active
ProcessBegin ==
  /\ ~InProcess
  /\ audioPc' = IF data.activated THEN "process" ELSE "idle"
  /\ last' = Plain("process")
  /\ UNCHANGED <<engine, data, freed, raced, parse, table>>

\* plugin_process, one input event: process_clap_note_event or
\* process_midi_event
ProcessEvent ==
  /\ InProcess
  /\ \/ \E k \in Keys, v \in Velocities :
          LET r == NoteOn(engine, 0, k, v)
          IN engine' = r.e
     \/ \E k \in Keys : engine' = m4a_engine_note_off(engine, 0, k)
     \/ engine' = m4a_engine_program_change(engine, 0, 2)
  /\ last' = Plain("process")
  /\ PluginUnchanged

\* plugin_process, one frame of the call of m4a_engine_process on which the
\* tick accumulator does not run over
ProcessFrame ==
  /\ InProcess
  /\ engine' = ProcessRender(engine)
  /\ last' = Plain("process")
  /\ PluginUnchanged

\* plugin_process returns
ProcessEnd ==
  /\ InProcess
  /\ audioPc' = "idle"
  /\ last' = Plain("process")
  /\ UNCHANGED <<engine, data, freed, raced, parse, table>>

\* the plugin after plugin_init with a configuration file that names
\* voicegroup 1 and one PCM channel
InitPlugin ==
  /\ engine = m4a_engine_init(pcmFreq)
  /\ data = [InitData EXCEPT !.voicegroupName = 1, !.maxPcmChannels = 1]
  /\ freed = {}
  /\ audioPc = "idle"
  /\ raced = FALSE
  /\ parse = NoParse
  /\ table = <<>>
  /\ last = Op("init", engine, engine, 0, 0, NoNote)

NextPlugin ==
  \/ gui_create \/ plugin_activate \/ plugin_deactivate
  \/ state_load \/ timer_on_timer
  \/ ProcessBegin \/ ProcessEvent \/ ProcessFrame \/ ProcessEnd

SpecPlugin == InitPlugin /\ [][NextPlugin]_vars

\* C1: when the plugin frees a loaded voicegroup, no sounding channel and no
\* track's current voice holds a pointer into the group being freed.
C1_AsStated == last.freedVg # 0 => ~last.held

\* C2: after a voicegroup load that failed, the engine's voice table is the
\* one it had before, and that table has not been freed.
C2_AsStated ==
  last.loadFailed =>
    /\ engine.voiceGroup = last.vgBefore
    /\ engine.voiceGroup \notin freed

\* C3: no main-thread handler writes the engine while the audio thread is
\* inside plugin_process.
C3_AsStated == ~raced

\* C11: every track's volume is rawVolume * songMasterVolume / 127 (integer
\* division) after every engine or plugin operation.
C11_AsStated ==
  \A t \in TrackIdx :
    engine.tracks[t].volume =
      (engine.tracks[t].rawVolume * engine.songMasterVolume) \div MAX_SONG_VOLUME

(* ---- voicegroup_loader.c: loading a voicegroup and its sub-voicegroups ---- *)

\* the voicegroup files of a project tree; any other name has no file
LoaderFiles == 1 .. MaxVg

\* the names voicegroup_load is asked for
LoaderNames == 1 .. (MaxVg + 1)

\* a project tree gives every voicegroup file the sub-voicegroup its
\* voice_keysplit or voice_keysplit_all line names (0: the file has no such
\* line)
Projects == [LoaderFiles -> 0 .. (MaxVg + 1)]

\* the voice lines of file f: 0 is a voice without sub-voicegroup, another
\* number a voice_keysplit(_all) line naming that voicegroup
FileLines(p, f) == IF p[f] = 0 THEN <<0>> ELSE <<p[f], 0>>

\* the innermost activation of parse_voicegroup_file
Top == parse.stack[Len(parse.stack)]

\* voiceIndex++ and the next fgets of the innermost activation
NextLine(stack) == [stack EXCEPT ![Len(stack)].line = @ + 1]

Parsing == parse.status = "running"

LoaderUnchanged == UNCHANGED <<engine, data, freed, audioPc, raced, table, last>>

\* voicegroup_load up to its call of parse_voicegroup_file
VoicegroupLoadBegin ==
  /\ parse.status = "idle"
  /\ \E name \in LoaderNames :
       parse' = IF find_voicegroup(LoaderFiles, name)
                THEN [parse EXCEPT !.status = "running",
                                   !.stack = <<[file |-> name, line |-> 1]>>]
                ELSE [parse EXCEPT !.status = "failed"]
  /\ LoaderUnchanged

\* parse_voicegroup_file: a voice line that names no sub-voicegroup
ParseVoice ==
  /\ Parsing
  /\ Top.line <= Len(FileLines(parse.project, Top.file))
  /\ FileLines(parse.project, Top.file)[Top.line] = 0
  /\ parse' = [parse EXCEPT !.stack = NextLine(@)]
  /\ LoaderUnchanged

\* parse_voicegroup_file: a voice_keysplit or voice_keysplit_all line, that
\* is load_sub_voicegroup up to its call of parse_voicegroup_file.  When the
\* process has no file handle or no stack left, fopen fails or the call
\* overflows the stack.
LoadSubVoicegroup ==
  /\ Parsing
  /\ Top.line <= Len(FileLines(parse.project, Top.file))
  /\ LET sub == FileLines(parse.project, Top.file)[Top.line]
     IN /\ sub # 0
        /\ IF ~find_voicegroup(LoaderFiles, sub)
           THEN parse' = [parse EXCEPT !.stack = NextLine(@)]
           ELSE IF Len(parse.stack) < MaxDepth
           THEN parse' = [parse EXCEPT
                            !.stack = Append(@, [file |-> sub, line |-> 1])]
           ELSE \/ parse' = [parse EXCEPT !.stack = NextLine(@)]
                \/ parse' = [parse EXCEPT !.status = "overflow"]
  /\ LoaderUnchanged

\* parse_voicegroup_file returns at the end of its file, to
\* load_sub_voicegroup or to voicegroup_load
ParseReturn ==
  /\ Parsing
  /\ Top.line > Len(FileLines(parse.project, Top.file))
  /\ parse' = IF Len(parse.stack) = 1
              THEN [parse EXCEPT !.status = "done", !.stack = <<>>]
              ELSE [parse EXCEPT
                      !.stack = NextLine(SubSeq(@, 1, Len(@) - 1))]
  /\ LoaderUnchanged

InitLoader ==
  /\ engine = m4a_engine_init(pcmFreq)
  /\ data = InitData
  /\ freed = {}
  /\ audioPc = "idle"
  /\ raced = FALSE
  /\ \E p \in Projects : parse = [NoParse EXCEPT !.project = p]
  /\ table = <<>>
  /\ last = Op("init", engine, engine, 0, 0, NoNote)

NextLoader ==
  VoicegroupLoadBegin \/ ParseVoice \/ LoadSubVoicegroup \/ ParseReturn

SpecLoader == InitLoader /\ [][NextLoader]_vars

\* C4: the recursion into sub-voicegroups is cycle-safe and bounded: no
\* voicegroup file is parsed inside its own parse, and the load never
\* exhausts the stack.
C4_AsStated ==
  /\ parse.status # "overflow"
  /\ \A i, j \in 1 .. Len(parse.stack) :
       i # j => parse.stack[i].file # parse.stack[j].file

(* ---- track pitch: MIDI events and ticks on one track ---- *)

\* the track the events address
PitchTrack == 0

\* inputs of the events: 14-bit pitch bends, bend ranges, mod-wheel values
\* and the LFO speed
Bends == {0, 4096}
BendRanges == {2, 12}
ModWheels == {0, 8}
LfoSpeeds == {64}
PitchKeys == {60, 72}

\* the record of an event; bent0 tells that the event is a pitch bend of 0
\* or a pitch-insensitive event after one
PitchOp(bent0) ==
  [Op("event", m4a_engine_init(pcmFreq), m4a_engine_init(pcmFreq), 0, 0, NoNote)
     EXCEPT !.bent0 = bent0]

\* events that change an input of the pitch computation
PitchBendEvent ==
  \E bend \in Bends :
    /\ engine' = m4a_engine_pitch_bend(engine, PitchTrack, bend)
    /\ last' = PitchOp(bend = 0)
    /\ PluginUnchanged

BendRangeEvent ==
  \E value \in BendRanges :
    /\ engine' = m4a_engine_cc(engine, PitchTrack, 20, value)
    /\ last' = PitchOp(FALSE)
    /\ PluginUnchanged

ModWheelEvent ==
  \E value \in ModWheels :
    /\ engine' = m4a_engine_cc(engine, PitchTrack, 1, value)
    /\ last' = PitchOp(FALSE)
    /\ PluginUnchanged

PitchTick ==
  \E u \in TickOutcomes(engine) :
    /\ engine' = m4a_engine_tick(engine, u)
    /\ last' = PitchOp(FALSE)
    /\ PluginUnchanged

\* events that change no input of the pitch computation: note on, note off,
\* volume, pan, LFO speed, all notes off, program change
QuietEvent ==
  /\ \/ \E k \in PitchKeys, v \in Velocities :
          engine' = m4a_engine_note_on(engine, PitchTrack, k, v)
     \/ \E k \in PitchKeys : engine' = m4a_engine_note_off(engine, PitchTrack, k)
     \/ engine' = m4a_engine_cc(engine, PitchTrack, 7, 127)
     \/ engine' = m4a_engine_cc(engine, PitchTrack, 10, 64)
     \/ \E value \in LfoSpeeds :
          engine' = m4a_engine_cc(engine, PitchTrack, 21, value)
     \/ engine' = m4a_engine_cc(engine, PitchTrack, 123, 0)
     \/ engine' = m4a_engine_program_change(engine, PitchTrack, 1)
  /\ last' = PitchOp(last.bent0)
  /\ PluginUnchanged

\* the engine with one PCM channel, the fixed-frequency voice on every
\* track, and the LFO speed of the event track set by its CC
InitPitch ==
  /\ engine = m4a_engine_cc(
                EngineWith(pcmFreq, 1, [t \in Tracks |-> 0], [t \in Tracks |-> 1]),
                PitchTrack, 21, 64)
  /\ last = PitchOp(FALSE)
  /\ InitRest

NextPitch ==
  PitchBendEvent \/ BendRangeEvent \/ ModWheelEvent \/ PitchTick \/ QuietEvent

SpecPitch == InitPitch /\ [][NextPitch]_vars

\* the output of the pitch computation for the track's current inputs
FreshPitch(track) ==
  [keyM |-> m4a_track_vol_pit_set(track).keyM,
   pitM |-> m4a_track_vol_pit_set(track).pitM]

\* C12: after every MIDI event handler and every tick, each track's keyM and
\* pitM are the output of the volume-and-pitch computation for the track's
\* current bend, bendRange, modM, modT, tune, keyShift and pitX.
C12_AsStated ==
  \A t \in TrackIdx :
    /\ engine.tracks[t].keyM = FreshPitch(engine.tracks[t]).keyM
    /\ engine.tracks[t].pitM = FreshPitch(engine.tracks[t]).pitM

\* C16: a sounding PCM channel of a fixed-frequency voice has the fixed
\* frequency word, whatever its key, and keeps it across pitch bends, bend
\* range changes and LFO updates.
C16_AsStated ==
  \A i \in PcmIdx :
    (IsOn(engine.pcmChannels[i].status)
       /\ BitAnd(engine.pcmChannels[i].type, VOICE_TYPE_FIX) # 0)
    => engine.pcmChannels[i].frequency = FixFrequency(engine.sampleRate)

\* C20 as stated: after a pitch bend of 0 and pitch-insensitive events only,
\* the track has keyM = 0 and pitM = 0, from every reachable track state.
C20_AsStated ==
  last.bent0 =>
    engine.tracks[PitchTrack].keyM = 0 /\ engine.tracks[PitchTrack].pitM = 0

\* C20: after a pitch bend of 0 and pitch-insensitive events only, the track
\* has keyM = 0 and pitM = 0 provided the LFO contributes no modulation
\* (modM = 0).
C20_BendRoundTrip ==
  (last.bent0 /\ engine.tracks[PitchTrack].modM = 0) =>
    engine.tracks[PitchTrack].keyM = 0 /\ engine.tracks[PitchTrack].pitM = 0

\* a pitch bend of 0 on a track with a widened bend range and the mod wheel
\* raised, with a note sounding
C20_Witness ==
  /\ last.bent0
  /\ engine.tracks[PitchTrack].modM = 0
  /\ engine.tracks[PitchTrack].mod # 0
  /\ engine.tracks[PitchTrack].bendRange = 12
  /\ \E i \in PcmIdx : IsOn(engine.pcmChannels[i].status)

(* ---- PCM envelope (one channel, DirectSound voices of many envelopes) ---- *)

\* attack, decay and sustain bytes of the voice
EnvAttacks == {0, 85, 128, 255}
EnvDecays == {0, 128, 200}
EnvSustains == {0, 64, 255}

\* the DirectSound voice of sample 2 with envelope (a, d, s) and release 0
EnvVoice(a, d, s) == Voice(0, 60, 0, 2, a, d, s, 0)

\* the record of an envelope operation: the channel before it, whether a
\* note-on started the channel, and whether a tick is the first one after
\* the note-on that started the channel
EnvOp(name, started, fresh) ==
  [op |-> name, before |-> engine.pcmChannels[0], started |-> started,
   fresh |-> fresh]

EnvNoteOn ==
  \E k \in Keys, v \in Velocities :
    LET r == NoteOn(engine, PitchTrack, k, v)
    IN /\ engine' = r.e
       /\ last' = EnvOp("note_on", r.alloc >= 0, FALSE)
       /\ PluginUnchanged

EnvNoteOff ==
  \E k \in Keys :
    /\ engine' = m4a_engine_note_off(engine, PitchTrack, k)
    /\ last' = EnvOp("note_off", FALSE, FALSE)
    /\ PluginUnchanged

EnvTick ==
  \E u \in TickOutcomes(engine) :
    /\ engine' = m4a_engine_tick(engine, u)
    /\ last' = EnvOp("tick", FALSE, last.op = "note_on" /\ last.started)
    /\ PluginUnchanged

\* the engine with one PCM channel and a voice table whose entry 0 is a
\* DirectSound voice with an envelope of the sets above, selected on the
\* event track
InitEnv ==
  /\ \E a \in EnvAttacks, d \in EnvDecays, s \in EnvSustains :
        table = [p \in {0} |-> EnvVoice(a, d, s)]
  /\ engine = ProgramChange(
                EngineWith(pcmFreq, 1, [t \in Tracks |-> 0], [t \in Tracks |-> 4]),
                table, PitchTrack, 0)
  /\ last = EnvOp("init", FALSE, FALSE)
  /\ data = InitData
  /\ freed = {}
  /\ audioPc = "idle"
  /\ raced = FALSE
  /\ parse = NoParse

NextEnv == EnvNoteOn \/ EnvNoteOff \/ EnvTick

SpecEnv == InitEnv /\ [][NextEnv]_vars

\* the envelope stage of a PCM channel
EnvStage(ch) == BitAnd(ch.status, CHN_ENV_MASK)

\* the last operation was a tick of the channel in the attack stage, not
\* stopping
AttackTick ==
  /\ last.op = "tick"
  /\ IsOn(last.before.status) /\ ~IsStop(last.before.status)
  /\ BitAnd(last.before.status, CHN_START + CHN_IEC) = 0
  /\ EnvStage(last.before) = CHN_ENV_ATTACK

\* C13: a tick of a PCM channel in the attack stage (not stopping) sets
\* envelopeVolume to min(old envelopeVolume + attack, 0xFF), and the stage
\* drops to decay exactly when that value is 0xFF.
C13_AsStated ==
  AttackTick =>
    LET v == Min(last.before.envelopeVolume + last.before.attack, 255)
    IN /\ engine.pcmChannels[0].envelopeVolume = v
       /\ (EnvStage(engine.pcmChannels[0]) = CHN_ENV_DECAY) <=> (v = 255)

SaturatedStart ==
  last.op = "note_on" /\ last.started /\ engine.pcmChannels[0].attack = 255

SaturatedFirstTick ==
  last.op = "tick" /\ last.fresh /\ last.before.attack = 255

\* C15 as stated: a PCM channel started from a voice with attack 0xFF has
\* envelopeVolume 0xFF right after the note-on, and its stage is decay
\* after its first tick, for every decay and sustain of the voice.
C15_AsStated ==
  /\ SaturatedStart => engine.pcmChannels[0].envelopeVolume = 255
  /\ SaturatedFirstTick => EnvStage(engine.pcmChannels[0]) = CHN_ENV_DECAY

\* C15: a PCM channel started from a voice with attack 0xFF has
\* envelopeVolume 0xFF and stage decay right after the note-on; after its
\* first tick the stage is still decay exactly when the decayed envelope
\* (0xFF * decay) >> 8 is above the voice's sustain.
C15_AttackSaturation ==
  /\ SaturatedStart =>
       /\ engine.pcmChannels[0].envelopeVolume = 255
       /\ EnvStage(engine.pcmChannels[0]) = CHN_ENV_DECAY
  /\ SaturatedFirstTick =>
       ((IsOn(engine.pcmChannels[0].status)
           /\ EnvStage(engine.pcmChannels[0]) = CHN_ENV_DECAY)
        <=> Shr(255 * last.before.decay, 8) > last.before.sustain)

\* the first tick of a channel of a voice with attack 0xFF, decay 200 and
\* sustain 64 has left it in the decay stage at 199
C15_Witness ==
  /\ SaturatedFirstTick
  /\ last.before.decay = 200 /\ last.before.sustain = 64
  /\ EnvStage(engine.pcmChannels[0]) = CHN_ENV_DECAY
  /\ engine.pcmChannels[0].envelopeVolume = 199

(* ---- voice editor (edits of the live voice table) ---- *)

\* the voice the editor has selected
EditedVoices == {0}

\* the record of an operation; started tells that a note-on started the
\* channel
EditOp(name, started) == [op |-> name, started |-> started]

\* edit_directsound_adsr on the selected entry of the live voice table: one
\* slider moves
VoiceEdit ==
  \E idx \in EditedVoices :
    LET voice == TableEntry(table, engine.voiceGroup, idx)
        Set(v) == table' = [p \in DOMAIN table \cup {idx} |->
                             IF p = idx THEN v ELSE table[p]]
    IN /\ \/ \E a \in EnvAttacks : Set([voice EXCEPT !.attack = a])
          \/ \E su \in EnvSustains : Set([voice EXCEPT !.sustain = su])
       /\ table' # table
       /\ last' = EditOp("edit", FALSE)
       /\ UNCHANGED <<engine, data, freed, audioPc, raced, parse>>

EditProgramChange ==
  \E idx \in EditedVoices :
    /\ engine' = ProgramChange(engine, table, PitchTrack, idx)
    /\ last' = EditOp("program_change", FALSE)
    /\ PluginUnchanged

EditNoteOn ==
  \E k \in Keys, v \in Velocities :
    LET r == NoteOn(engine, PitchTrack, k, v)
    IN /\ engine' = r.e
       /\ last' = EditOp("note_on", r.alloc >= 0)
       /\ PluginUnchanged

RefreshVoices ==
  /\ engine' = m4a_engine_refresh_voices(engine, table)
  /\ last' = EditOp("refresh_voices", FALSE)
  /\ PluginUnchanged

\* the engine with one PCM channel and program 0 on the event track, the
\* voice table as loaded
InitEdit ==
  /\ engine = EngineWith(pcmFreq, 1, [t \in Tracks |-> 0],
                         [t \in Tracks |-> IF t = PitchTrack THEN 0 ELSE 4])
  /\ last = EditOp("init", FALSE)
  /\ InitRest

NextEdit ==
  VoiceEdit \/ EditProgramChange \/ RefreshVoices \/ EditNoteOn

SpecEdit == InitEdit /\ [][NextEdit]_vars

\* C17: after the voice editor has changed an entry of the voice table, the
\* next note-on on a track whose current program is that entry starts its
\* channel with the entry's current envelope, without a program change or
\* a call of refresh_voices in between.
C17_AsStated ==
  (last.op = "note_on" /\ last.started) =>
    LET voice == TableEntry(table, engine.voiceGroup,
                            engine.tracks[PitchTrack].currentProgram)
        ch == engine.pcmChannels[0]
    IN /\ ch.attack = voice.attack /\ ch.decay = voice.decay
       /\ ch.sustain = voice.sustain /\ ch.release = voice.release

(* ---- m4a_engine_process in blocks ---- *)

\* numSamples of the calls made before the first split block
WarmupCalls == <<37, 37, 37, 37, 37, 37>>

\* numSamples of one call, and the number of calls a block is split into
PartFrames == 0 .. 2
PartCounts == 1 .. 3

\* frames rendered after the warm-up
MaxFrames == 6

\* reverb amounts set by m4a_reverb_set_amount
ReverbAmounts == {0, 64}

\* the splits of a block
Splits == UNION {[1 .. k -> PartFrames] : k \in PartCounts}

RECURSIVE SumOf(_)
SumOf(parts) == IF parts = <<>> THEN 0 ELSE Head(parts) + SumOf(Tail(parts))

\* m4a_engine_process called once for every part, on consecutive regions
\* of the output buffers
RECURSIVE ProcessParts(_, _)
ProcessParts(r, parts) ==
  IF parts = <<>> THEN r
  ELSE CHOOSE done \in
         {ProcessParts([e |-> one.e, out |-> r.out \o one.out], Tail(parts)) :
            one \in {m4a_engine_process(r.e, Head(parts))}} : TRUE

\* the record of an operation: frames counts the frames rendered since the
\* warm-up; for a split call, whole is the outcome of the single call on the
\* same engine, out the frames the parts have written, cuts the number of
\* non-empty parts and ticked whether an engine tick fell into the block
SplitOp(name, frames) == [op |-> name, frames |-> frames]

\* the outcome of the calls for the parts (split), and of the single call
\* for their sum (whole), on engine e
SplitRun(e, parts) ==
  CHOOSE both \in
    {[split |-> run[parts], whole |-> run[<<SumOf(parts)>>]] :
       run \in {[ps \in {parts, <<SumOf(parts)>>} |->
                  ProcessParts([e |-> e, out |-> <<>>], ps)]}} : TRUE

SplitProcess ==
  \E parts \in Splits :
    /\ last.frames + SumOf(parts) <= MaxFrames
    /\ \E run \in {SplitRun(engine, parts)} :
         /\ engine' = run.split.e
         /\ last' = [op |-> "process", frames |-> last.frames + SumOf(parts),
                     whole |-> run.whole, out |-> run.split.out,
                     cuts |-> Cardinality({i \in DOMAIN parts : parts[i] > 0}),
                     ticked |-> run.split.e.c15 # engine.c15]
    /\ PluginUnchanged

SplitNoteOn ==
  \E k \in Keys, v \in Velocities :
    /\ engine' = m4a_engine_note_on(engine, PitchTrack, k, v)
    /\ last' = SplitOp("note_on", last.frames)
    /\ PluginUnchanged

SplitNoteOff ==
  \E k \in Keys :
    /\ engine' = m4a_engine_note_off(engine, PitchTrack, k)
    /\ last' = SplitOp("note_off", last.frames)
    /\ PluginUnchanged

\* the engine with one PCM channel, a looping DirectSound voice on the
\* event track, the warm-up calls made, and then the analog filter and the
\* reverb amount as the plugin sets them
InitSplit ==
  /\ \E f \in BOOLEAN, a \in ReverbAmounts :
        engine = [ProcessParts(
                    [e |-> EngineWith(pcmFreq, 1, [t \in Tracks |-> 0],
                                      [t \in Tracks |-> IF t = PitchTrack THEN 0 ELSE 4]),
                     out |-> <<>>],
                    WarmupCalls).e
                  EXCEPT !.analogFilter = f, !.reverb.amount = a]
  /\ last = SplitOp("init", 0)
  /\ InitRest

NextSplit == SplitProcess \/ SplitNoteOn \/ SplitNoteOff

SpecSplit == InitSplit /\ [][NextSplit]_vars

MaxCalls == 2

\* frames_count of a call, and the number of its input events
FrameCounts == 1 .. 3
EventCounts == 0 .. 2

\* the note events of the host, on the event track
EventTypes == {"note_on", "note_off"}

\* the in_events lists of a call of n frames: up to two events, sorted by
\* time, with times inside the block
InEvents(n) ==
  {ev \in UNION {[1 .. k -> [time : 0 .. (n - 1), type : EventTypes]] :
                   k \in EventCounts} :
     \A i \in DOMAIN ev : \A j \in DOMAIN ev : i < j => ev[i].time <= ev[j].time}

\* the audio thread outside plugin_process
Idle(calls) ==
  [pc |-> "idle", calls |-> calls, events |-> <<>>, numFrames |-> 0,
   eventIdx |-> 0, framePos |-> 0]

\* a faulty variant of EventDue that takes every event at the start of the
\* block
EventDueAtOnce(p) == p.eventIdx < Len(p.events)

\* the test of the inner loop: there is an event left and its time is not
\* after the current frame position
EventDue(p) ==
  p.eventIdx < Len(p.events) /\ ~(p.events[p.eventIdx + 1].time > p.framePos)

\* nextEventTime
NextEventTime(p) ==
  IF p.eventIdx < Len(p.events) /\ p.events[p.eventIdx + 1].time < p.numFrames
  THEN p.events[p.eventIdx + 1].time
  ELSE p.numFrames

\* process_clap_note_event
process_clap_note_event(e, ev) ==
  IF ev.type = "note_on" THEN m4a_engine_note_on(e, PitchTrack, 60, 20)
  ELSE m4a_engine_note_off(e, PitchTrack, 60)

\* plugin_process, entry, on an activated plugin
ProcessCall ==
  /\ audioPc.pc = "idle" /\ audioPc.calls < MaxCalls /\ data.activated
  /\ \E n \in FrameCounts : \E ev \in InEvents(n) :
       audioPc' = [pc |-> "loop", calls |-> audioPc.calls + 1, events |-> ev,
                   numFrames |-> n, eventIdx |-> 0, framePos |-> 0]
  /\ last' = [op |-> "process", log |-> <<>>]
  /\ UNCHANGED <<engine, data, freed, raced, parse, table>>

\* plugin_process, inner loop: one event at the current position
ProcessApplyEvent ==
  /\ audioPc.pc = "loop" /\ audioPc.framePos < audioPc.numFrames
  /\ EventDue(audioPc)
  /\ engine' = process_clap_note_event(engine, audioPc.events[audioPc.eventIdx + 1])
  /\ audioPc' = [audioPc EXCEPT !.eventIdx = audioPc.eventIdx + 1]
  /\ last' = [last EXCEPT !.log = Append(last.log,
                 [kind |-> "event", i |-> audioPc.eventIdx,
                  time |-> audioPc.events[audioPc.eventIdx + 1].time])]
  /\ UNCHANGED <<data, freed, raced, parse, table>>

\* plugin_process, outer loop after the inner one: the frames up to the
\* next event are rendered
ProcessRenderBlock ==
  /\ audioPc.pc = "loop" /\ audioPc.framePos < audioPc.numFrames
  /\ ~EventDue(audioPc)
  /\ engine' = m4a_engine_process(engine, NextEventTime(audioPc) - audioPc.framePos).e
  /\ audioPc' = [audioPc EXCEPT !.framePos = NextEventTime(audioPc)]
  /\ last' = [last EXCEPT !.log = last.log \o
                 [f \in 1 .. (NextEventTime(audioPc) - audioPc.framePos) |->
                    [kind |-> "frame", i |-> audioPc.framePos + f - 1, time |-> 0]]]
  /\ UNCHANGED <<data, freed, raced, parse, table>>

\* plugin_process returns
ProcessReturn ==
  /\ audioPc.pc = "loop" /\ ~(audioPc.framePos < audioPc.numFrames)
  /\ audioPc' = [Idle(audioPc.calls) EXCEPT !.events = audioPc.events,
                                            !.numFrames = audioPc.numFrames]
  /\ UNCHANGED <<engine, data, freed, raced, parse, table, last>>

\* the activated plugin with one PCM channel and a DirectSound voice on the
\* event track
InitProcess ==
  /\ engine = EngineWith(pcmFreq, 1, [t \in Tracks |-> 0],
                         [t \in Tracks |-> IF t = PitchTrack THEN 0 ELSE 4])
  /\ data = [InitData EXCEPT !.activated = TRUE, !.loadedVg = 1,
                             !.voicegroupName = 1, !.maxPcmChannels = 1]
  /\ freed = {}
  /\ audioPc = Idle(0)
  /\ raced = FALSE
  /\ parse = NoParse
  /\ table = <<>>
  /\ last = [op |-> "init", log |-> <<>>]

NextProcess ==
  ProcessCall \/ ProcessApplyEvent \/ ProcessRenderBlock \/ ProcessReturn

SpecProcess == InitProcess /\ [][NextProcess]_vars

\* the positions of the log that hold events, and those that hold frames
LogEvents == {p \in DOMAIN last.log : last.log[p].kind = "event"}
LogFrames == {p \in DOMAIN last.log : last.log[p].kind = "frame"}

\* C18: within one call of plugin_process (of at least one frame, its
\* events listed in time order with times inside the block), the events are
\* applied in the order of the host's list, and for an event with time t
\* every frame with index < t is rendered before it is applied and every
\* frame with index >= t after it; when the call returns, every event has
\* been applied and every frame rendered.
C18_EventOrder ==
  /\ \A p \in LogEvents :
       /\ last.log[p].i = Cardinality({q \in LogEvents : q < p})
       /\ {last.log[q].i : q \in {f \in LogFrames : f < p}}
            = 0 .. (last.log[p].time - 1)
       /\ \A q \in LogFrames : q > p => last.log[q].i >= last.log[p].time
  /\ (last.op = "process" /\ audioPc.pc = "idle") =>
       /\ Cardinality(LogEvents) = Len(audioPc.events)
       /\ {last.log[q].i : q \in LogFrames} = 0 .. (audioPc.numFrames - 1)

\* a call of three frames has returned: a note-on at frame 0, a note-off at
\* frame 2, each applied before the frame of its time was rendered
C18_Witness ==
  /\ last.op = "process" /\ audioPc.pc = "idle" /\ audioPc.numFrames = 3
  /\ Len(last.log) = 5
  /\ last.log[1] = [kind |-> "event", i |-> 0, time |-> 0]
  /\ last.log[4] = [kind |-> "event", i |-> 1, time |-> 2]
  /\ last.log[5] = [kind |-> "frame", i |-> 2, time |-> 0]
  /\ audioPc.events[1].type = "note_on" /\ audioPc.events[2].type = "note_off"
  /\ IsStop(engine.pcmChannels[0].status)

(* ---- m4a_plugin.c: the settings masterVolume and maxPcmChannels ---- *)

\* the values atoi reads for master_volume and max_channels in poryaaaa.cfg;
\* <<>> stands for a file without the key
ConfigValues == {<<0 - 1>>, <<300>>}

\* the master volume byte and the maxPcmChannels byte of the saved states;
\* a channel byte of -1 stands for a stream that ends before that byte
SavedStates == {<<15, 0 - 1>>, <<255, 0>>, <<255, 13>>}

\* the values of the slider "Polyphony (1-12)" of the GUI
SliderChannels == {1, MAX_PCM_CHANNELS}

\* load_config_file: the keys master_volume and max_channels of the file
load_config_file(d, master_volume, max_channels) ==
  [d EXCEPT !.masterVolume = IF master_volume = <<>> THEN @
                             ELSE ConfigSetting(master_volume[1], 0, 15),
            !.maxPcmChannels = IF max_channels = <<>> THEN @
                               ELSE ConfigSetting(max_channels[1], 1,
                                                  MAX_PCM_CHANNELS)]

\* state_load of a saved state of the configured voicegroup
SettingsStateLoad ==
  \E saved \in SavedStates :
    StateLoadStream(data.voicegroupName, saved[1], MAX_SONG_VOLUME, saved[2])

\* timer_on_timer after the user moved the polyphony slider
SettingsTimer ==
  \E v \in SliderChannels :
    TimerSettings(data.songMasterVolume, 0, data.masterVolume, v)

\* plugin_process, one input event of a host that selects program 1 and
\* plays one note
SettingsEvent ==
  /\ InProcess
  /\ \/ engine' = m4a_engine_program_change(engine, 0, 1)
     \/ /\ \A i \in PcmIdx : ~IsOn(engine.pcmChannels[i].status)
        /\ \E k \in Keys, v \in Velocities : engine' = NoteOn(engine, 0, k, v).e
  /\ last' = Plain("process")
  /\ PluginUnchanged

\* plugin_process, one frame of the call of m4a_engine_process on which the
\* tick accumulator runs over
SettingsTick ==
  /\ InProcess
  /\ \E u \in TickOutcomes(engine) : engine' = ProcessSample(engine, TRUE, u)
  /\ last' = Plain("tick")
  /\ PluginUnchanged

\* the plugin after plugin_init with a configuration file that names
\* voicegroup 1
InitSettings ==
  /\ engine = m4a_engine_init(pcmFreq)
  /\ \E mv \in ConfigValues, mc \in ConfigValues :
       data = load_config_file([InitData EXCEPT !.voicegroupName = 1], mv, mc)
  /\ freed = {}
  /\ audioPc = "idle"
  /\ raced = FALSE
  /\ parse = NoParse
  /\ table = <<>>
  /\ last = Op("init", engine, engine, 0, 0, NoNote)

\* a host that activates the plugin once
NextSettings ==
  \/ gui_create \/ plugin_activate
  \/ SettingsStateLoad \/ SettingsTimer
  \/ ProcessBegin \/ SettingsEvent \/ SettingsTick \/ ProcessEnd

SpecSettings == InitSettings /\ [][NextSettings]_vars

C22_AsStated == last.op = "tick" => engine.masterVolume \in 0 .. 15

(* ---- m4a_channel.c: the 4-bit levels of the CGB channels ---- *)

\* the song volume bytes of saved states
SavedSongVolumes == {64, MAX_SONG_VOLUME, 255}

\* the programs (a Square 1 voice and the drum kit), the key (the drum
\* kit's Square 2 voice panned right), the values of CC 7 and of CC 10 the
\* host sends
CgbVolPrograms == {3, 8}
CgbVolKeys == {62}
CgbVolVolumes == {127}
CgbVolPans == {64, 127}

CgbVolCc ==
  /\ \/ \E v \in CgbVolVolumes : engine' = m4a_engine_cc(engine, 0, 7, v)
     \/ \E v \in CgbVolPans : engine' = m4a_engine_cc(engine, 0, 10, v)
  /\ last' = [op |-> "cc"]
  /\ PluginUnchanged

\* the note-on of a host that plays one note at a time
CgbVolNoteOn ==
  /\ \A i \in CgbIdx : ~IsOn(engine.cgbChannels[i].status)
  /\ \E k \in CgbVolKeys : engine' = NoteOn(engine, 0, k, 127).e
  /\ last' = [op |-> "note_on"]
  /\ PluginUnchanged

CgbVolNoteOff ==
  /\ \E k \in CgbVolKeys : engine' = m4a_engine_note_off(engine, 0, k)
  /\ last' = [op |-> "note_off"]
  /\ PluginUnchanged

CgbVolTick ==
  /\ \E u \in TickOutcomes(engine) : engine' = m4a_engine_tick(engine, u)
  /\ last' = [op |-> "tick"]
  /\ PluginUnchanged

\* the engine of an active plugin after state_load has copied the song
\* volume byte of a saved state into it and the host has selected a program
InitCgbVol ==
  /\ \E vol \in SavedSongVolumes, p \in CgbVolPrograms :
       /\ data = [InitData EXCEPT !.activated = TRUE, !.voicegroupName = 1,
                                  !.loadedVg = 1, !.songMasterVolume = vol]
       /\ engine = m4a_engine_program_change(
                     WithSettings(m4a_engine_set_voicegroup(
                                    m4a_engine_init(pcmFreq), 1), data),
                     0, p)
  /\ freed = {}
  /\ audioPc = "idle"
  /\ raced = FALSE
  /\ parse = NoParse
  /\ table = <<>>
  /\ last = [op |-> "init"]

NextCgbVol == CgbVolCc \/ CgbVolNoteOn \/ CgbVolNoteOff \/ CgbVolTick

SpecCgbVol == InitCgbVol /\ [][NextCgbVol]_vars

\* C23: the envelope volume, the envelope goal and the sustain goal of every
\* sounding CGB channel are within 0 .. 15.
C23_AsStated ==
  \A i \in CgbIdx :
    IsOn(engine.cgbChannels[i].status) =>
      /\ engine.cgbChannels[i].envelopeVolume \in 0 .. 15
      /\ engine.cgbChannels[i].envelopeGoal \in 0 .. 15
      /\ engine.cgbChannels[i].sustainGoal \in 0 .. 15

(* ---- m4a_channel.c: cgb_pan and m4a_cgb_mod_vol ---- *)

\* the values of CC 7 and of CC 10 and the velocities the host sends
ModVolVolumes == {0, 100}
ModVolPans == {42, 64, 127}
ModVolVelocities == {20}

ModVolCc ==
  /\ \/ \E v \in ModVolVolumes : engine' = m4a_engine_cc(engine, 0, 7, v)
     \/ \E v \in ModVolPans : engine' = m4a_engine_cc(engine, 0, 10, v)
  /\ last' = [op |-> "cc"]
  /\ PluginUnchanged

ModVolNoteOn ==
  /\ \E k \in Keys, v \in ModVolVelocities : engine' = NoteOn(engine, 0, k, v).e
  /\ last' = [op |-> "note_on"]
  /\ PluginUnchanged

ModVolNoteOff ==
  /\ \E k \in Keys : engine' = m4a_engine_note_off(engine, 0, k)
  /\ last' = [op |-> "note_off"]
  /\ PluginUnchanged

\* the call m4a_cgb_channel_tick(ch, c15) reaches the label step_complete
CgbReachesStepComplete(ch) ==
  /\ IsOn(ch.status)
  /\ IF BitAnd(ch.status, CHN_START) # 0
     THEN ~IsStop(ch.status) /\ (ch.attack # 0 \/ ch.decay # 0 \/ ch.sustain # 0)
     ELSE IF BitAnd(ch.status, CHN_IEC) # 0 THEN FALSE
     ELSE IF IsStop(ch.status) /\ BitAnd(ch.status, CHN_ENV_MASK) # 0
     THEN ch.release # 0
     ELSE CgbStepBody(ch).k = "step"

\* m4a_engine_tick; the record keeps the value of c15 the CGB channels were
\* ticked with, the channels whose tick reached step_complete and those
\* whose tick went back to step_repeat from there
ModVolTick ==
  /\ \E u \in TickOutcomes(engine) :
       /\ engine' = m4a_engine_tick(engine, u)
       /\ LET stepped == {i \in CgbIdx :
                           /\ IsOn(engine.cgbChannels[i].status)
                           /\ CgbReachesStepComplete(GateTime(engine.cgbChannels[i]))}
          IN last' = [op |-> "tick", c15 |-> engine'.c15, stepped |-> stepped,
                      repeated |-> {i \in stepped :
                                      IF CgbIndeterminate(engine.cgbChannels[i])
                                      THEN u[i] ELSE engine'.c15 = 0}]
  /\ PluginUnchanged

\* the engine with a voicegroup and the Square 1 voice on track 0
InitModVol ==
  /\ engine = m4a_engine_program_change(
                m4a_engine_set_voicegroup(m4a_engine_init(pcmFreq), 1), 0, 3)
  /\ InitRest
  /\ last = [op |-> "init"]

NextModVol == ModVolCc \/ ModVolNoteOn \/ ModVolNoteOff \/ ModVolTick

SpecModVol == InitModVol /\ [][NextModVol]_vars

\* the pan of channel ch is the routing pan masked with the channel's panMask
PanIs(ch, pan) == ch.pan = BitAnd(pan, ch.panMask)

\* C24: a sounding CGB channel is routed to both sides exactly when
\* |L - R| <= max(L, R) / 2, and otherwise to the louder side, 0xF0 when
\* L > R and 0x0F otherwise.
C24_AsStated ==
  \A i \in CgbIdx :
    LET ch == engine.cgbChannels[i]
        L == ch.leftVolume
        R == ch.rightVolume
    IN IsOn(ch.status) =>
         PanIs(ch, IF 2 * (Max(L, R) - Min(L, R)) <= Max(L, R) THEN 255
                   ELSE IF L > R THEN 240 ELSE 15)

\* C24, amended: a sounding CGB channel is routed to both sides exactly when
\* the quieter side is above half of the louder one, min(L, R) >
\* max(L, R) div 2, and otherwise to the louder side, 0xF0 when L > R and
\* 0x0F otherwise.
C24_AboveHalf ==
  \A i \in CgbIdx :
    LET ch == engine.cgbChannels[i]
        L == ch.leftVolume
        R == ch.rightVolume
    IN IsOn(ch.status) =>
         PanIs(ch, IF Min(L, R) > Max(L, R) \div 2 THEN 255
                   ELSE IF L > R THEN 240 ELSE 15)

\* a sounding channel whose quieter side is exactly half of the louder one
\* is hard-panned to the left
C24_Witness ==
  \E i \in CgbIdx :
    LET ch == engine.cgbChannels[i]
    IN /\ IsOn(ch.status)
       /\ ch.rightVolume > 0 /\ ch.leftVolume = 2 * ch.rightVolume
       /\ PanIs(ch, 240)

\* C25: in every tick of a CGB channel that reaches an envelope step, the
\* step is repeated within the call exactly when c15 = 0; the tick that
\* enters the release after a note-off is one of them.
C25_AsStated ==
  last.op = "tick" =>
    \A i \in last.stepped : (i \in last.repeated) <=> (last.c15 = 0)

(* ---- m4a_engine.c: the period flag of the noise channel ---- *)

\* the Noise voices of the voicegroup: program 7 has the period flag set,
\* program 10 has it clear
NoisePrograms == {7, 10}

\* the CGB channel of the Noise voices
NoiseChannel == engine.cgbChannels[3]

\* note on and program change on the event track
NoiseNote ==
  /\ \/ \E k \in Keys, v \in Velocities :
          engine' = m4a_engine_note_on(engine, PitchTrack, k, v)
     \/ \E p \in NoisePrograms :
          engine' = m4a_engine_program_change(engine, PitchTrack, p)
  /\ last' = [PitchOp(FALSE) EXCEPT !.op = "note"]
  /\ PluginUnchanged

\* the engine with a Noise voice on every track and the LFO speed of the
\* event track set by its CC
InitNoise ==
  /\ engine = m4a_engine_cc(
                EngineWith(pcmFreq, 1, [t \in Tracks |-> 0], [t \in Tracks |-> 7]),
                PitchTrack, 21, 64)
  /\ last = PitchOp(FALSE)
  /\ InitRest

NextNoise ==
  PitchBendEvent \/ BendRangeEvent \/ ModWheelEvent \/ PitchTick \/ NoiseNote

SpecNoise == InitNoise /\ [][NextNoise]_vars

\* C26: a pitch bend, a bend-range change, a mod-wheel change or a tick (LFO
\* vibrato) leaves bit 3 of the frequency word of a sounding noise channel as
\* it was.
C26_PeriodFlagKept ==
  [][(last'.op = "event" /\ IsOn(NoiseChannel.status)) =>
       BitAnd(engine'.cgbChannels[3].frequency, 8) = BitAnd(NoiseChannel.frequency, 8)]_vars

\* a sounding noise channel with the period flag set whose frequency word a
\* pitch update has changed since the note-on
C26_Witness ==
  /\ IsOn(NoiseChannel.status)
  /\ last.op = "event"
  /\ BitAnd(NoiseChannel.frequency, 8) = 8
  /\ NoiseChannel.frequency #
       BitOr(m4a_midi_key_to_cgb_freq(4, NoiseChannel.key, 0), 8)

(* ---- m4a_channel.c: the noise generator of m4a_cgb_channel_render ---- *)

\* the float quotient of the float m * 2^e (0 < m < 2^24) by the integer b
\* (0 < b < 2^24): q is the quotient so far and r the remainder; the
\* quotient is rounded to nearest even at 24 significant bits
RECURSIVE FloatDivBits(_, _, _, _)
FloatDivBits(q, r, e, b) ==
  IF q >= 8388608
  THEN [m |-> IF 2 * r > b \/ (2 * r = b /\ q % 2 = 1) THEN q + 1 ELSE q,
        e |-> e]
  ELSE FloatDivBits(2 * q + (IF 2 * r >= b THEN 1 ELSE 0),
                    IF 2 * r >= b THEN 2 * r - b ELSE 2 * r, e - 1, b)

FloatDiv(m, e, b) == FloatDivBits(m \div b, m % b, e, b)

\* (uint32_t)(f * 4294967296.0f) for a float f = m * 2^e below 1, as the
\* pair of its high and low 16 bits
PhaseWord(f) ==
  LET s == f.e + 32
  IN IF s >= 16 THEN <<f.m * Pow2(s - 16), 0>>
     ELSE IF s >= 0
     THEN <<f.m \div Pow2(16 - s), (f.m % Pow2(16 - s)) * Pow2(s)>>
     ELSE <<(f.m \div Pow2(0 - s)) \div 65536, (f.m \div Pow2(0 - s)) % 65536>>

\* phaseInc of a sounding CGB channel: freqHz / sampleRate * 2^32 with freqHz
\* 131072 / (2048 - freqReg) for the square channels, 2097152 /
\* (2048 - freqReg) / 32 for the wave channel and 524288 / divisor /
\* (1 << (shiftFreq + 1)) for the noise channel (divisor 0.5 for divRatio 0)
CgbPhaseInc(ch, sRate) ==
  LET freqReg == IF ch.frequency >= 2048 THEN 2047 ELSE ch.frequency
      noiseParams == ch.frequency % 256
      divRatio == noiseParams % 8
      shiftFreq == (noiseParams \div 16) % 16
      freqHz ==
        IF ch.type = 4
        THEN LET base == IF divRatio = 0 THEN FloatDiv(1048576, 0, 1)
                         ELSE FloatDiv(524288, 0, divRatio)
             IN [base EXCEPT !.e = base.e - (shiftFreq + 1)]
        ELSE IF ch.type = 3
        THEN LET base == FloatDiv(2097152, 0, 2048 - freqReg)
             IN [base EXCEPT !.e = base.e - 5]
        ELSE FloatDiv(131072, 0, 2048 - freqReg)
  IN PhaseWord(FloatDiv(freqHz.m, freqHz.e, sRate))

\* ch->phase += phaseInc on the 32-bit phase <<high, low>>
PhaseAdd(phase, inc) ==
  LET lo == phase[2] + inc[2]
      hi == phase[1] + inc[1] + lo \div 65536
  IN [phase |-> <<hi % 65536, lo % 65536>>, wrapped |-> hi >= 65536]

\* a faulty variant of the LFSR clock that feeds bit 14 in both modes
NoiseClockLong(lfsr, noiseParams) ==
  LET bit == (lfsr \div 2 + lfsr) % 2
  IN BitOr(lfsr \div 2, bit * 16384)

\* one clock of the LFSR: the XOR of bits 0 and 1 is fed into bit 6 when
\* bit 3 of the frequency word is set, into bit 14 otherwise
NoiseClock(lfsr, noiseParams) ==
  LET bit == (lfsr \div 2 + lfsr) % 2
  IN IF BitAnd(noiseParams, 8) # 0 THEN BitOr(lfsr \div 2, bit * 64)
     ELSE BitOr(lfsr \div 2, bit * 16384)

\* m4a_cgb_channel_render: the channel after one output sample (the wave
\* channel advances when it has a wave)
m4a_cgb_channel_render(ch, sRate) ==
  IF ~IsOn(ch.status) \/ BitAnd(ch.status, CHN_START) # 0 THEN ch
  ELSE IF ch.type = 3 /\ ch.wavePointer = 0 THEN ch
  ELSE LET next == PhaseAdd(ch.phase, CgbPhaseInc(ch, sRate))
       IN IF ch.type = 4 /\ next.wrapped
          THEN [ch EXCEPT !.phase = next.phase,
                          !.lfsr = NoiseClock(ch.lfsr, ch.frequency % 256)]
          ELSE [ch EXCEPT !.phase = next.phase]

\* the CGB render loop of one iteration of m4a_engine_process
ProcessCgbRender(e) ==
  [e EXCEPT !.cgbChannels = [i \in CgbIdx |->
     m4a_cgb_channel_render(e.cgbChannels[i], e.sampleRate)]]

\* the number of LFSR clocks of a note the generator is followed for
MaxClocks == 260

\* the record of an operation: bits holds the output bit at the start of the
\* note and after every LFSR clock since
NoiseOp(name, bits) == [op |-> name, bits |-> bits]

\* program change to one of the Noise voices while the channel is silent
LfsrProgram ==
  \E p \in NoisePrograms :
    /\ ~IsOn(NoiseChannel.status)
    /\ engine' = m4a_engine_program_change(engine, PitchTrack, p)
    /\ last' = NoiseOp("program", <<>>)
    /\ PluginUnchanged

\* note on of the Noise voice
LfsrNoteOn ==
  \E k \in Keys, v \in Velocities :
    /\ ~IsOn(NoiseChannel.status)
    /\ engine' = m4a_engine_note_on(engine, PitchTrack, k, v)
    /\ last' = NoiseOp("note_on", <<engine'.cgbChannels[3].lfsr % 2>>)
    /\ PluginUnchanged

\* one iteration of the sample loop of m4a_engine_process while the note
\* sounds
LfsrSample ==
  /\ IsOn(NoiseChannel.status)
  /\ Len(last.bits) <= MaxClocks
  /\ engine' = ProcessCgbRender(ProcessIteration(engine).e)
  /\ last' = NoiseOp("sample",
               IF engine'.cgbChannels[3].lfsr # NoiseChannel.lfsr
               THEN Append(last.bits, engine'.cgbChannels[3].lfsr % 2)
               ELSE last.bits)
  /\ PluginUnchanged

InitLfsr ==
  /\ engine = EngineWith(pcmFreq, 1, [t \in Tracks |-> 0], [t \in Tracks |-> 7])
  /\ last = NoiseOp("init", <<>>)
  /\ InitRest

NextLfsr == LfsrProgram \/ LfsrNoteOn \/ LfsrSample

SpecLfsr == InitLfsr /\ [][NextLfsr]_vars

\* the output bits recorded so far repeat with period p
RepeatsWith(p) ==
  \A n \in 1 .. Len(last.bits) - p : last.bits[n + p] = last.bits[n]

\* C27: the output bits of a Noise note with the period flag set repeat
\* within 127 LFSR clocks; those of a note with the flag clear do not repeat
\* with any period up to 127 clocks.
C27_AsStated ==
  /\ BitAnd(NoiseChannel.frequency, 8) # 0 => RepeatsWith(127)
  /\ (BitAnd(NoiseChannel.frequency, 8) = 0 /\ Len(last.bits) > MaxClocks) =>
       \A p \in 1 .. 127 : ~RepeatsWith(p)

\* a note with the period flag set that has been followed for more than two
\* periods
C27_Witness ==
  /\ IsOn(NoiseChannel.status)
  /\ BitAnd(NoiseChannel.frequency, 8) # 0
  /\ Len(last.bits) > 254

\* a note with the period flag clear that has been followed for more than
\* two short periods
C27_LongWitness ==
  /\ IsOn(NoiseChannel.status)
  /\ BitAnd(NoiseChannel.frequency, 8) = 0
  /\ Len(last.bits) > MaxClocks

(* ---- m4a_engine.c: note-on of a voice without sample or sub-voicegroup ---- *)

\* programs of the event track: a one-shot DirectSound voice, Square 1, a
\* DirectSound voice without sample, a drum kit (whose unused keys resolve
\* to a DirectSound voice without sample), and a drum kit and a key split
\* without sub-voicegroup
MissingPrograms == {1, 3, 4, 8, 11, 12}
MissingKeys == {60, 61}

MissingProgramChange ==
  \E p \in MissingPrograms :
    /\ engine' = m4a_engine_program_change(engine, PitchTrack, p)
    /\ last' = Op("program_change", engine, engine', PitchTrack, 0, NoNote)
    /\ PluginUnchanged

MissingNoteOn ==
  \E k \in MissingKeys, v \in Velocities :
    LET r == NoteOn(engine, PitchTrack, k, v)
    IN /\ engine' = r.e
       /\ last' = Op("note_on", engine, r.e, PitchTrack, k, r)
       /\ PluginUnchanged

InitMissing ==
  /\ engine = EngineWith(pcmFreq, 2, [t \in Tracks |-> 0], [t \in Tracks |-> 1])
  /\ last = Op("init", engine, engine, 0, 0, NoNote)
  /\ InitRest

MissingNoteOff ==
  \E k \in MissingKeys :
    /\ engine' = m4a_engine_note_off(engine, PitchTrack, k)
    /\ last' = Op("note_off", engine, engine', PitchTrack, k, NoNote)
    /\ PluginUnchanged

NextMissing == MissingProgramChange \/ MissingNoteOn \/ MissingNoteOff

SpecMissing == InitMissing /\ [][NextMissing]_vars

\* the voice of the last note-on has no sub-voicegroup, or resolves to a
\* DirectSound voice without sample (note-on leaves currentVoice alone)
NoteVoiceMissing ==
  LET voice == engine.tracks[last.trackIndex].currentVoice
      r == resolve_voice(voice, last.key)
  IN \/ IsSplit(voice.type) /\ voice.wav = 0
     \/ /\ r.ok
        /\ BitAnd(r.v.type, VOICE_TYPE_CGB_MASK) \notin 1 .. 4
        /\ r.v.wav = 0

\* C28: a note-on whose voice has no sub-voicegroup or resolves to a
\* DirectSound voice without sample starts no channel and leaves every PCM
\* and CGB channel as it was.
C28_AsStated ==
  (last.op = "note_on" /\ NoteVoiceMissing) =>
    /\ ~last.taken
    /\ last.pcmChanged = {} /\ last.cgbChanged = {}

\* such a note-on of a key-split voice without sub-voicegroup while a PCM
\* and a CGB channel sound
C28_Witness ==
  /\ last.op = "note_on" /\ NoteVoiceMissing
  /\ engine.tracks[last.trackIndex].currentVoice.type = VOICE_KEYSPLIT
  /\ \E i \in PcmIdx : IsOn(engine.pcmChannels[i].status)
  /\ \E i \in CgbIdx : IsOn(engine.cgbChannels[i].status)

\* such a note-on of a drum-kit key that resolves to a DirectSound voice
\* without sample
C28_NullSample ==
  /\ last.op = "note_on" /\ NoteVoiceMissing
  /\ engine.tracks[last.trackIndex].currentVoice.wav = 1
  /\ \E i \in CgbIdx : IsOn(engine.cgbChannels[i].status)

(* ---- m4a_engine.c: track indices outside [0, MAX_TRACKS) ---- *)

\* the track indices below and above the range, and the programs of the
\* event track (a one-shot DirectSound voice and Square 1)
BadTracks == {0 - 1, MAX_TRACKS}
RangePrograms == {1, 3}

\* the events of the event track that bring the engine into its states
RangeEvent ==
  /\ \/ \E k \in Keys, v \in Velocities :
          engine' = m4a_engine_note_on(engine, PitchTrack, k, v)
     \/ \E k \in Keys : engine' = m4a_engine_note_off(engine, PitchTrack, k)
     \/ \E p \in RangePrograms :
          engine' = m4a_engine_program_change(engine, PitchTrack, p)
     \/ \E bend \in Bends : engine' = m4a_engine_pitch_bend(engine, PitchTrack, bend)
  /\ last' = [op |-> "event"]
  /\ PluginUnchanged

\* the record of a call with a track index outside the range
BadCall(name, t) == [op |-> "bad_track", call |-> name, trackIndex |-> t,
                     before |-> engine]

BadNoteOn ==
  \E t \in BadTracks, k \in Keys, v \in Velocities :
    /\ engine' = m4a_engine_note_on(engine, t, k, v)
    /\ last' = BadCall("note_on", t)
    /\ PluginUnchanged

BadNoteOff ==
  \E t \in BadTracks, k \in Keys :
    /\ engine' = m4a_engine_note_off(engine, t, k)
    /\ last' = BadCall("note_off", t)
    /\ PluginUnchanged

BadProgramChange ==
  \E t \in BadTracks, p \in RangePrograms :
    /\ engine' = m4a_engine_program_change(engine, t, p)
    /\ last' = BadCall("program_change", t)
    /\ PluginUnchanged

BadCc ==
  \E t \in BadTracks, cc \in {1, 7, 10, 20, 21}, value \in {0, 100} :
    /\ engine' = m4a_engine_cc(engine, t, cc, value)
    /\ last' = BadCall("cc", t)
    /\ PluginUnchanged

BadPitchBend ==
  \E t \in BadTracks, bend \in Bends :
    /\ engine' = m4a_engine_pitch_bend(engine, t, bend)
    /\ last' = BadCall("pitch_bend", t)
    /\ PluginUnchanged

InitRange ==
  /\ engine = EngineWith(pcmFreq, 1, [t \in Tracks |-> 0], [t \in Tracks |-> 3])
  /\ last = [op |-> "init"]
  /\ InitRest

NextRange ==
  \/ RangeEvent
  \/ BadNoteOn \/ BadNoteOff \/ BadProgramChange \/ BadCc \/ BadPitchBend

SpecRange == InitRange /\ [][NextRange]_vars

\* C29: a call of note_on, note_off, program_change, cc or pitch_bend with a
\* track index outside [0, MAX_TRACKS) leaves the whole engine as it was.
C29_AsStated == last.op = "bad_track" => engine = last.before

\* a pitch bend with track index MAX_TRACKS while a bent note sounds
C29_Witness ==
  /\ last.op = "bad_track" /\ last.call = "pitch_bend"
  /\ last.trackIndex = MAX_TRACKS
  /\ engine.tracks[PitchTrack].bend # 0
  /\ \E i \in CgbIdx : IsOn(engine.cgbChannels[i].status)

(* ---- m4a_engine.c: repeated m4a_engine_all_sound_off ---- *)

\* the number of calls in a row the model follows
MaxSoundOffs == 3

SilenceEvent ==
  /\ \/ \E k \in Keys, v \in Velocities :
          engine' = m4a_engine_note_on(engine, PitchTrack, k, v)
     \/ \E k \in Keys : engine' = m4a_engine_note_off(engine, PitchTrack, k)
     \/ \E p \in RangePrograms :
          engine' = m4a_engine_program_change(engine, PitchTrack, p)
  /\ last' = [op |-> "event"]
  /\ PluginUnchanged

SilenceTick ==
  \E u \in TickOutcomes(engine) :
    /\ engine' = m4a_engine_tick(engine, u)
    /\ last' = [op |-> "tick"]
    /\ PluginUnchanged

\* a call of m4a_engine_all_sound_off: calls counts the calls in a row, once
\* is the engine the first of them left, sounding the channels that sounded
\* before it
SilenceAllSoundOff ==
  /\ last.op = "all_sound_off" => last.calls < MaxSoundOffs
  /\ engine' = m4a_engine_all_sound_off(engine)
  /\ last' = IF last.op = "all_sound_off"
             THEN [last EXCEPT !.calls = last.calls + 1]
             ELSE [op |-> "all_sound_off", calls |-> 1, once |-> engine',
                   sounding |-> {i \in PcmIdx : IsOn(engine.pcmChannels[i].status)}
                     \cup {MAX_PCM_CHANNELS + i : i \in
                             {j \in CgbIdx : IsOn(engine.cgbChannels[j].status)}}]
  /\ PluginUnchanged

InitSilence ==
  /\ engine = EngineWith(pcmFreq, 1, [t \in Tracks |-> 0], [t \in Tracks |-> 3])
  /\ last = [op |-> "init"]
  /\ InitRest

NextSilence == SilenceEvent \/ SilenceTick \/ SilenceAllSoundOff

SpecSilence == InitSilence /\ [][NextSilence]_vars

\* C30: after any number of calls of all_sound_off in a row the engine is
\* what the first of them left.
C30_AsStated == last.op = "all_sound_off" => engine = last.once

\* a third call in a row after a first that silenced a sounding CGB channel
C30_Witness ==
  /\ last.op = "all_sound_off" /\ last.calls = MaxSoundOffs
  /\ \E i \in last.sounding : i >= MAX_PCM_CHANNELS

(* ---- voicegroup_loader.c: the per-load cache of loaded samples ---- *)

WAVE_CACHE_CAPACITY == 128

\* the sample symbols of the voice lines; the symbol map gives every symbol
\* the path of its own file, and the files of SampleFiles exist
SampleSymbols == 1 .. 3
SampleFiles == 1 .. 2

\* voice lines of one load the model follows
MaxVoiceLines == 4

\* the loader during voicegroup_load: cache is the WaveCache (its entries in
\* order, each the path of its WaveData), waveDatas the WaveData objects
\* registered with the LoadedVoiceGroup (each by the path of the file it was
\* loaded from; the object is its position), lines the voice lines parsed
NoWaves == [status |-> "idle", cache |-> <<>>, waveDatas |-> <<>>, lines |-> 0]

\* wave_cache_find: the position in waveDatas of the object cached for path,
\* 0 for NULL
wave_cache_find(cache, path) ==
  IF \E i \in 1 .. Len(cache) : cache[i].path = path
  THEN cache[CHOOSE i \in 1 .. Len(cache) :
               /\ cache[i].path = path
               /\ \A j \in 1 .. (i - 1) : cache[j].path # path].wd
  ELSE 0

wave_cache_insert(cache, path, wd) ==
  IF Len(cache) >= WAVE_CACHE_CAPACITY THEN cache
  ELSE Append(cache, [path |-> path, wd |-> wd])

\* resolve_and_load_sample for a symbol of the symbol map: the loader after
\* it and the object it returns (0 for NULL)
resolve_and_load_sample(ld, symbol) ==
  LET cached == wave_cache_find(ld.cache, symbol)
  IN IF cached # 0 THEN [ld |-> ld, wd |-> cached]
     ELSE IF symbol \notin SampleFiles THEN [ld |-> ld, wd |-> 0]
     ELSE LET wd == Len(ld.waveDatas) + 1
          IN [ld |-> [ld EXCEPT
                        !.waveDatas = Append(@, symbol),
                        !.cache = wave_cache_insert(@, symbol, wd)],
              wd |-> wd]

\* the record of a voice line: the symbol it names and the object its voice
\* points to
WaveOp(name, symbol, wd) == [op |-> name, symbol |-> symbol, wd |-> wd]

WavesUnchanged == UNCHANGED <<engine, data, freed, audioPc, raced, table>>

\* voicegroup_load up to the parse of the voicegroup file: wave_cache_init
WavesLoadBegin ==
  /\ parse.status \in {"idle", "done"}
  /\ parse' = [NoWaves EXCEPT !.status = "running"]
  /\ last' = WaveOp("load", 0, 0)
  /\ WavesUnchanged

\* a voice_directsound line of the voicegroup file or of a sub-voicegroup
\* file (load_sub_voicegroup passes the same vg and waveCache on)
WavesVoice ==
  \E symbol \in SampleSymbols :
    LET r == resolve_and_load_sample(parse, symbol)
    IN /\ parse.status = "running" /\ parse.lines < MaxVoiceLines
       /\ parse' = [r.ld EXCEPT !.lines = @ + 1]
       /\ last' = WaveOp("voice", symbol, r.wd)
       /\ WavesUnchanged

\* a cry or cry_reverse line: load_wave_data and vg_register_wavedata
WavesCry ==
  \E symbol \in SampleSymbols :
    /\ parse.status = "running" /\ parse.lines < MaxVoiceLines
    /\ parse' = IF symbol \in SampleFiles
                THEN [parse EXCEPT !.waveDatas = Append(@, symbol),
                                   !.lines = @ + 1]
                ELSE [parse EXCEPT !.lines = @ + 1]
    /\ last' = WaveOp("cry", symbol,
                      IF symbol \in SampleFiles THEN Len(parse.waveDatas) + 1
                      ELSE 0)
    /\ WavesUnchanged

\* the end of the voicegroup file
WavesLoadEnd ==
  /\ parse.status = "running"
  /\ parse' = [parse EXCEPT !.status = "done"]
  /\ last' = WaveOp("done", 0, 0)
  /\ WavesUnchanged

InitWaves ==
  /\ engine = m4a_engine_init(pcmFreq)
  /\ data = InitData
  /\ freed = {}
  /\ audioPc = "idle"
  /\ raced = FALSE
  /\ parse = NoWaves
  /\ table = <<>>
  /\ last = WaveOp("init", 0, 0)

NextWaves == WavesLoadBegin \/ WavesVoice \/ WavesCry \/ WavesLoadEnd

SpecWaves == InitWaves /\ [][NextWaves]_vars

\* C31: within one load no sample file has two WaveData objects, so that
\* voices of the same file share one.
C31_AsStated ==
  \A i, j \in 1 .. Len(parse.waveDatas) :
    parse.waveDatas[i] = parse.waveDatas[j] => i = j

(* ---- m4a_plugin.c: state_save and state_load on the bytes of the stream ---- *)

\* sizeof(data->projectRoot) and sizeof(data->voicegroupName)
ProjectRootSize == 512
VoicegroupNameSize == 256

\* the seven stored settings; strings are numbers whose length is StrLen
\* (0 is the empty string)
Settings(root, name, reverb, mv, vol, af, ch) ==
  [projectRoot |-> root, voicegroupName |-> name, reverbAmount |-> reverb,
   masterVolume |-> mv, songMasterVolume |-> vol, analogFilter |-> af,
   maxPcmChannels |-> ch]

StrLen(str) == IF str = 0 THEN 0 ELSE 8 + str

\* the settings of the states a host has saved
SavedSettings ==
  {Settings(1, 1, 40, 12, 100, FALSE, 8), Settings(2, 1, 0, 15, 64, TRUE, 3)}

\* the stored settings of the plugin
StoredSettings(d) ==
  Settings(d.projectRoot, d.voicegroupName, d.reverbAmount, d.masterVolume,
           d.songMasterVolume, d.analogFilter, d.maxPcmChannels)

\* state_save: the items written to the stream, a string after its length
\* unless it is empty
state_save(d) ==
  <<StrLen(d.projectRoot)>>
    \o (IF d.projectRoot # 0 THEN <<d.projectRoot>> ELSE <<>>)
    \o <<StrLen(d.voicegroupName)>>
    \o (IF d.voicegroupName # 0 THEN <<d.voicegroupName>> ELSE <<>>)
    \o <<d.reverbAmount, d.masterVolume, d.songMasterVolume,
         IF d.analogFilter THEN 1 ELSE 0, d.maxPcmChannels>>

\* the streams state_load is given: a saved state cut after any number of
\* items, and streams whose first or second length is out of range
SavedBlobs ==
  UNION {{SubSeq(state_save(d), 1, n) : n \in 0 .. Len(state_save(d))} :
           d \in SavedSettings}
    \cup {<<ProjectRootSize>>, <<9, 1, VoicegroupNameSize>>}

\* the reads of state_load: d is the plugin data after them, ok what
\* state_load returns when the plugin is not active. blob[p] is the item the
\* next read delivers; a read past the end delivers nothing.
StateLoadName(d, blob, p) ==
  LET Has(i) == i <= Len(blob)
      Byte(i) == IF Has(i) THEN blob[i] ELSE 0 - 1
      nameLen == blob[p]
      q == IF nameLen > 0 THEN p + 2 ELSE p + 1
      d1 == [d EXCEPT !.voicegroupName = IF nameLen > 0 THEN blob[p + 1] ELSE 0]
  IN IF ~Has(p) \/ nameLen >= VoicegroupNameSize THEN [d |-> d, ok |-> FALSE]
     ELSE IF nameLen > 0 /\ ~Has(p + 1) THEN [d |-> d, ok |-> FALSE]
     ELSE IF ~Has(q) THEN [d |-> d1, ok |-> FALSE]
     ELSE IF ~Has(q + 1)
     THEN [d |-> [d1 EXCEPT !.reverbAmount = blob[q]], ok |-> FALSE]
     ELSE IF ~Has(q + 2)
     THEN [d |-> [d1 EXCEPT !.reverbAmount = blob[q],
                            !.masterVolume = blob[q + 1]], ok |-> FALSE]
     ELSE [d |-> [d1 EXCEPT !.reverbAmount = blob[q],
                            !.masterVolume = blob[q + 1],
                            !.songMasterVolume = blob[q + 2],
                            !.analogFilter = IF Has(q + 3) THEN blob[q + 3] # 0
                                             ELSE TRUE,
                            !.maxPcmChannels = StateMaxChannels(Byte(q + 4))],
           ok |-> TRUE]

StateLoadRead(d, blob) ==
  LET Has(i) == i <= Len(blob)
      rootLen == blob[1]
  IN IF ~Has(1) \/ rootLen >= ProjectRootSize THEN [d |-> d, ok |-> FALSE]
     ELSE IF rootLen > 0 /\ ~Has(2) THEN [d |-> d, ok |-> FALSE]
     ELSE IF rootLen > 0
     THEN StateLoadName([d EXCEPT !.projectRoot = blob[2]], blob, 3)
     ELSE StateLoadName([d EXCEPT !.projectRoot = 0], blob, 2)

\* the record of a state_load: what it returned, the stored settings before
\* it and the stream
BlobOp(name, ok, before, blob) ==
  [op |-> name, ok |-> ok, before |-> before, blob |-> blob]

\* state_load of the stream blob, on the main thread
StateLoadBlob(blob) ==
  LET r == StateLoadRead(data, blob)
      vgChanged == \/ r.d.projectRoot # data.projectRoot
                   \/ r.d.voicegroupName # data.voicegroupName
      load == /\ r.ok /\ data.activated /\ vgChanged
              /\ r.d.projectRoot # 0 /\ r.d.voicegroupName # 0
      rl == Reload(engine, data, r.d.voicegroupName)
      e1 == IF load THEN rl.e ELSE engine
  IN /\ load => NewVg <= MaxLoads
     /\ engine' = IF r.ok /\ data.activated
                  THEN [WithSettings(e1, r.d) EXCEPT
                          !.analogFilter = r.d.analogFilter,
                          !.reverb.amount = r.d.reverbAmount]
                  ELSE engine
     /\ data' = [r.d EXCEPT !.loadedVg = IF load THEN rl.loadedVg ELSE @]
     /\ freed' = IF load /\ rl.freedVg # 0 THEN freed \cup {rl.freedVg}
                 ELSE freed
     /\ raced' = (raced \/ (r.ok /\ data.activated /\ InProcess))
     /\ last' = BlobOp("state_load", r.ok, StoredSettings(data), blob)
     /\ UNCHANGED <<audioPc, parse, table>>

BlobStateLoad == \E blob \in SavedBlobs : StateLoadBlob(blob)

\* plugin_activate with the stored settings
BlobActivate ==
  /\ ~data.activated /\ ~InProcess
  /\ LET e0 == [WithSettings(m4a_engine_init(pcmFreq), data) EXCEPT
                  !.analogFilter = data.analogFilter,
                  !.reverb.amount = data.reverbAmount]
         load == data.projectRoot # 0 /\ data.voicegroupName # 0
         r == Reload(e0, data, data.voicegroupName)
     IN /\ load => NewVg <= MaxLoads
        /\ engine' = IF load THEN r.e ELSE e0
        /\ data' = [data EXCEPT !.activated = TRUE,
                      !.loadedVg = IF load THEN r.loadedVg ELSE @]
        /\ freed' = IF load /\ r.freedVg # 0 THEN freed \cup {r.freedVg}
                    ELSE freed
        /\ last' = BlobOp("plugin_activate", TRUE, StoredSettings(data), <<>>)
  /\ UNCHANGED <<audioPc, raced, parse, table>>

\* the plugin after plugin_init without a configuration file
InitBlob ==
  /\ engine = m4a_engine_init(pcmFreq)
  /\ data = [activated |-> FALSE, loadedVg |-> 0, gui |-> FALSE,
             projectRoot |-> 0, voicegroupName |-> 0, reverbAmount |-> 0,
             masterVolume |-> 15, songMasterVolume |-> MAX_SONG_VOLUME,
             analogFilter |-> FALSE, maxPcmChannels |-> 5]
  /\ freed = {}
  /\ audioPc = "idle"
  /\ raced = FALSE
  /\ parse = NoParse
  /\ table = <<>>
  /\ last = BlobOp("init", TRUE, StoredSettings(data), <<>>)

NextBlob == BlobStateLoad \/ BlobActivate

SpecBlob == InitBlob /\ [][NextBlob]_vars

\* the last operation was the state_load of the saved state d cut before
\* its last n items
LoadedWithout(d, n) ==
  /\ last.op = "state_load"
  /\ last.blob = SubSeq(state_save(d), 1, Len(state_save(d)) - n)

\* C32: a saved state that ends before the maxPcmChannels byte, or before
\* the analog-filter byte, loads successfully: the earlier fields are those
\* of the saved state, the missing ones are 5 channels and filter enabled.
C32_AsStated ==
  \A d \in SavedSettings, n \in 1 .. 2 :
    LoadedWithout(d, n) =>
      /\ last.ok
      /\ StoredSettings(data) =
           [d EXCEPT !.maxPcmChannels = 5,
                     !.analogFilter = IF n = 2 THEN TRUE ELSE @]

\* a state saved with the filter off and 8 channels was loaded without its
\* two trailing bytes into an active plugin
C32_Witness ==
  /\ data.activated
  /\ \E d \in SavedSettings :
       /\ LoadedWithout(d, 2) /\ ~d.analogFilter /\ d.maxPcmChannels = 8
       /\ engine.analogFilter /\ engine.maxPcmChannels = 5

\* C37: a state_load that returns false leaves the stored settings as they
\* were.
C37_AsStated ==
  (last.op = "state_load" /\ ~last.ok) => StoredSettings(data) = last.before

(* ---- m4a_channel.c: the release of a channel after note off ---- *)

\* the voices of the released note: DirectSound voices of release 0 and 255
\* and Square 1 voices of release 0 and 7
ReleaseVoices ==
  {Voice(0, 60, 0, 2, 255, 0, 16, r) : r \in {0, 255}}
    \cup {Voice(1, 60, 0, 2, 0, 0, 15, r) : r \in {0, 7}}

\* pseudoEchoVolume and pseudoEchoLength of the track, which note-on copies
\* into the channel (m4a_engine_init leaves both 0 and no event sets them)
ReleaseEchoes == {<<0, 0>>, <<1, 0>>, <<200, 3>>}

\* the record of an operation: released tells that the note has been
\* released
ReleaseOp(name, released) == [op |-> name, released |-> released]

ReleaseNoteOn ==
  /\ last.op = "init"
  /\ \E k \in Keys : engine' = m4a_engine_note_on(engine, PitchTrack, k, 127)
  /\ last' = ReleaseOp("note_on", FALSE)
  /\ PluginUnchanged

ReleaseNoteOff ==
  /\ last.op # "init" /\ ~last.released
  /\ \/ \E k \in Keys : engine' = m4a_engine_note_off(engine, PitchTrack, k)
     \/ engine' = m4a_engine_all_notes_off(engine, PitchTrack)
  /\ last' = ReleaseOp("note_off", TRUE)
  /\ PluginUnchanged

ReleaseTick ==
  \E u \in TickOutcomes(engine) :
    /\ engine' = m4a_engine_tick(engine, u)
    /\ last' = ReleaseOp("tick", last.released)
    /\ PluginUnchanged

InitRelease ==
  /\ \E v \in ReleaseVoices : table = [p \in {0} |-> v]
  /\ \E echo \in ReleaseEchoes :
       engine = ProgramChange(
                  [EngineWith(pcmFreq, 1, [t \in Tracks |-> 0], [t \in Tracks |-> 4])
                     EXCEPT !.tracks[PitchTrack].pseudoEchoVolume = echo[1],
                            !.tracks[PitchTrack].pseudoEchoLength = echo[2]],
                  table, PitchTrack, 0)
  /\ last = ReleaseOp("init", FALSE)
  /\ data = InitData
  /\ freed = {}
  /\ audioPc = "idle"
  /\ raced = FALSE
  /\ parse = NoParse

NextRelease == ReleaseNoteOn \/ ReleaseNoteOff \/ ReleaseTick

\* the host keeps calling plugin_process, so engine ticks keep coming; a tick
\* is enabled in every state and always changes c15, so that this is weak
\* fairness of ReleaseTick written without ENABLED
SpecRelease == InitRelease /\ [][NextRelease]_vars /\ []<><<ReleaseTick>>_vars

\* the channels the note of the event track can take: the engine has one
\* PCM channel, and a Square 1 voice plays on CGB channel 0
ReleasedPcm ==
  IsOn(engine.pcmChannels[0].status) /\ IsStop(engine.pcmChannels[0].status)
ReleasedCgb ==
  IsOn(engine.cgbChannels[0].status) /\ IsStop(engine.cgbChannels[0].status)

\* C33: a PCM or CGB channel that note_off or all_notes_off has put into
\* release is inactive, with status 0, after finitely many ticks.
C33_AsStated ==
  /\ ReleasedPcm ~> (engine.pcmChannels[0].status = 0)
  /\ ReleasedCgb ~> (engine.cgbChannels[0].status = 0)

\* a released Square 1 note of release 7 with a pseudo echo has ended
C33_Witness ==
  /\ last.op = "tick" /\ last.released
  /\ table[0].type = 1 /\ table[0].release = 7
  /\ engine.tracks[PitchTrack].pseudoEchoVolume = 200
  /\ engine.cgbChannels[0].status = 0
  /\ engine.cgbChannels[0].pseudoEchoLength = 0

\* C34: a held PCM note of a voice with attack > 0 leaves the attack stage
\* after finitely many ticks; on the way, a tick of the channel in the attack
\* stage never lowers envelopeVolume. The part a finite run refutes: no tick
\* of a held channel in the attack stage lowers envelopeVolume.
C34_AsStated ==
  (AttackTick /\ last.before.attack > 0) =>
    engine.pcmChannels[0].envelopeVolume >= last.before.envelopeVolume

(* ---- the reverb tail ---- *)

\* passes over the delay buffer that are rendered
MaxPasses == 2

\* reverb amounts, and the value a sounding note has left in every byte of
\* the delay buffer
TailAmounts == {1, 64}
TailLevels == {-2, -1, 1}

\* the delay buffer whose bytes all hold v
TailBuffer(v) == [i \in 1 .. ReverbBufferSize |-> [l |-> v, r |-> v]]

\* frames per call of m4a_engine_process: the host's block size, of which
\* the delay buffer holds 66
TailFrames == {24}

\* the record of a process call: whether every call of the current pass over
\* the buffer has written back the bytes it found, the passes completed,
\* and whether every frame the call has written is zero
TailOp(name, same, passes, silent) ==
  [op |-> name, same |-> same, passes |-> passes, silent |-> silent]

\* m4a_engine_process with no channel active
TailProcess ==
  /\ last.passes < MaxPasses
  /\ \E n \in TailFrames : \E r \in {m4a_engine_process(engine, n)} :
       /\ engine' = r.e
       /\ last' = TailOp("process",
                         /\ (engine.reverb.pos = 0 \/ last.same)
                         /\ r.e.reverb.buffer = engine.reverb.buffer,
                         IF r.e.reverb.pos = 0 THEN last.passes + 1
                         ELSE last.passes,
                         \A i \in 1 .. n : r.out[i] = [plain |-> [l |-> 0, r |-> 0]])
  /\ PluginUnchanged

\* the engine with every channel off, the reverb amount set and the delay
\* buffer filled by what has sounded before
InitTail ==
  /\ \E a \in TailAmounts, v \in TailLevels :
       engine = [EngineWith(pcmFreq, 1, [t \in Tracks |-> 0], [t \in Tracks |-> 4])
                   EXCEPT !.reverb = [pos |-> 0, amount |-> a,
                                      buffer |-> TailBuffer(v)]]
  /\ last = TailOp("init", TRUE, 0, TRUE)
  /\ table = <<>>
  /\ data = InitData
  /\ freed = {}
  /\ audioPc = "idle"
  /\ raced = FALSE
  /\ parse = NoParse

NextTail == TailProcess

SpecTail == InitTail /\ [][NextTail]_vars

\* C35: with reverb amount > 0 and no channel active, the reverb tail dies
\* out: after finitely many frames the delay buffer holds only zeros and the
\* output is zero. What is rendered is a function of the buffer, so the part
\* a finite run refutes is: no pass over the whole buffer leaves a buffer
\* that is not all zero as it was when the pass began.
C35_AsStated ==
  (last.op = "process" /\ engine.reverb.pos = 0
     /\ engine.reverb.buffer # TailBuffer(0))
    => ~last.same

(* ---- m4a_plugin.c: plugin_process on any block ---- *)

\* frames_count of a call, an empty block included
AnyFrameCounts == 0 .. 2

\* the in_events lists of a call of n frames: up to two events, sorted by
\* time, with times up to n (the time n lies behind the block)
AnyEvents(n) ==
  {ev \in UNION {[1 .. k -> [time : 0 .. n, type : EventTypes]] :
                   k \in EventCounts} :
     \A i \in DOMAIN ev : \A j \in DOMAIN ev : i < j => ev[i].time <= ev[j].time}

\* plugin_process, entry, on an activated plugin
AnyProcessCall ==
  /\ audioPc.pc = "idle" /\ audioPc.calls < MaxCalls /\ data.activated
  /\ \E n \in AnyFrameCounts : \E ev \in AnyEvents(n) :
       audioPc' = [pc |-> "loop", calls |-> audioPc.calls + 1, events |-> ev,
                   numFrames |-> n, eventIdx |-> 0, framePos |-> 0]
  /\ last' = [op |-> "process", log |-> <<>>]
  /\ UNCHANGED <<engine, data, freed, raced, parse, table>>

NextAnyProcess ==
  AnyProcessCall \/ ProcessApplyEvent \/ ProcessRenderBlock \/ ProcessReturn

SpecAnyProcess == InitProcess /\ [][NextAnyProcess]_vars

\* C36: when a call of plugin_process has returned, every event of its
\* input list has been applied to the engine exactly once, whatever
\* frames_count and the events' times are.
C36_AsStated ==
  (last.op = "process" /\ audioPc.pc = "idle") =>
    \A i \in 0 .. (Len(audioPc.events) - 1) :
      Cardinality({p \in LogEvents : last.log[p].i = i}) = 1

(* ---- the indices of the voice resolution ---- *)

\* "split" lines of a key-split table that are parsed
MaxSplitLines == 2

\* the index and the endNote of a "split index, endNote" line
SplitIndexes == {0, 1, 127, 128, 300}
SplitEnds == {0, 64, 128, 200}

\* the key of a CLAP note event (an int16_t, -1 for "every key") and the
\* second byte of a raw MIDI event
ClapKeys == {0 - 1, 0, 60, 127}
MidiKeys == {0, 60, 127, 128, 255}

\* the key-split voice and the drum-kit voice of the voice table
SplitPrograms == {8, 9}

\* parse_keysplit_tables_file: a "keysplit name" line has cleared the
\* KeySplitDef; def is the table and lastNote
NewKeySplitDef == [table |-> [n \in 0 .. 127 |-> 0], lastNote |-> 0, lines |-> 0]

\* parse_keysplit_tables_file: a "split index, endNote" line
SplitLine(def, index, endNote) ==
  [table |-> [n \in 0 .. 127 |->
                IF def.lastNote <= n /\ n < endNote THEN U8(index)
                ELSE def.table[n]],
   lastNote |-> endNote,
   lines |-> def.lines + 1]

\* the array reads of resolve_voice(voice, key) for the key-split table
\* splitTable, idx being the byte that splitTable[key] yields
ResolveReads(voice, key, idx) ==
  IF BitAnd(voice.type, VOICE_KEYSPLIT_ALL) # 0
  THEN IF voice.wav = 0 THEN {}
       ELSE {[array |-> "subGroup", index |-> key]}
  ELSE IF BitAnd(voice.type, VOICE_KEYSPLIT) # 0
  THEN IF voice.wav = 0 \/ voice.keySplitTable = 0 THEN {}
       ELSE {[array |-> "keySplitTable", index |-> key],
             [array |-> "subGroup", index |-> idx]}
  ELSE {}

\* what splitTable[key] yields: the byte of the table, or any byte when key
\* lies behind the 128 bytes of the table
SplitTableRead(def, key) ==
  IF key < 128 THEN {def.table[key]} ELSE {0, 255}

KeysOp(name, key, reads) == [op |-> name, key |-> key, reads |-> reads]

KeysSplitLine ==
  /\ parse.lines < MaxSplitLines
  /\ \E index \in SplitIndexes, endNote \in SplitEnds :
       parse' = SplitLine(parse, index, endNote)
  /\ last' = KeysOp("split", 0, {})
  /\ UNCHANGED <<engine, data, freed, audioPc, raced, table>>

\* process_clap_note_event, CLAP_EVENT_NOTE_ON: the voice resolution of
\* m4a_engine_note_on for the key (uint8_t)ev->key
KeysClapNoteOn ==
  /\ \E k \in ClapKeys, p \in SplitPrograms :
       \E idx \in SplitTableRead(parse, U8(k)) :
         last' = KeysOp("clap_note_on", U8(k),
                        ResolveReads(VoiceGroup(p), U8(k), idx))
  /\ UNCHANGED <<engine, data, freed, audioPc, raced, parse, table>>

\* process_midi_event, status 0x90: the voice resolution of
\* m4a_engine_note_on for the key msg[1]
KeysMidiNoteOn ==
  /\ \E k \in MidiKeys, p \in SplitPrograms :
       \E idx \in SplitTableRead(parse, k) :
         last' = KeysOp("midi_note_on", k, ResolveReads(VoiceGroup(p), k, idx))
  /\ UNCHANGED <<engine, data, freed, audioPc, raced, parse, table>>

InitKeys ==
  /\ engine = EngineWith(pcmFreq, 1, [t \in Tracks |-> 0], [t \in Tracks |-> 9])
  /\ parse = NewKeySplitDef
  /\ last = KeysOp("init", 0, {})
  /\ table = <<>>
  /\ data = InitData
  /\ freed = {}
  /\ audioPc = "idle"
  /\ raced = FALSE

NextKeys == KeysSplitLine \/ KeysClapNoteOn \/ KeysMidiNoteOn

SpecKeys == InitKeys /\ [][NextKeys]_vars

\* C38: every index with which the voice resolution of a note-on reads the
\* key-split table or the sub-voicegroup lies in 0 .. 127.
C38_AsStated ==
  \A rd \in last.reads : rd.index \in 0 .. (VOICEGROUP_SIZE - 1)

(* ---- note on and pitch bend in either order ---- *)

\* keys, 14-bit bends and bend ranges of the events
OrderKeys == {0, 60, 72, 120, 127}
OrderBends == {0 - 8192, 0 - 1, 0, 4096, 8191}
OrderRanges == {2, 12}

\* the record of the pair of events: the last event, which of the two came
\* first, the engine before the pair, its key and bend, and whether both
\* events have been applied
OrderOp(name, first, start, key, bend, done) ==
  [op |-> name, first |-> first, start |-> start, key |-> key, bend |-> bend,
   done |-> done]

\* CC 20 before the pair
OrderBendRange ==
  /\ last.first = "none"
  /\ \E value \in OrderRanges :
       engine' = m4a_engine_cc(engine, PitchTrack, 20, value)
  /\ last' = OrderOp("range", "none", engine, 0, 0, FALSE)
  /\ PluginUnchanged

OrderNoteOn ==
  /\ last.first \in {"none", "bend"} /\ ~last.done
  /\ \E k \in OrderKeys :
       /\ engine' = m4a_engine_note_on(engine, PitchTrack, k, 127)
       /\ last' = IF last.first = "none"
                  THEN OrderOp("note_on", "note_on", engine, k, 0, FALSE)
                  ELSE OrderOp("note_on", "bend", last.start, k, last.bend, TRUE)
  /\ PluginUnchanged

OrderPitchBend ==
  /\ last.first \in {"none", "note_on"} /\ ~last.done
  /\ \E b \in OrderBends :
       /\ engine' = m4a_engine_pitch_bend(engine, PitchTrack, b)
       /\ last' = IF last.first = "none"
                  THEN OrderOp("bend", "bend", engine, 0, b, FALSE)
                  ELSE OrderOp("bend", "note_on", last.start, last.key, b, TRUE)
  /\ PluginUnchanged

\* the engine with one PCM channel and a resampled DirectSound voice of the
\* low-rate sample 4 on the event track; its LFO is at rest (mod = 0)
InitOrder ==
  /\ table = [p \in {0} |-> Voice(0, 60, 0, 4, 255, 0, 255, 0)]
  /\ engine = ProgramChange(
                EngineWith(pcmFreq, 1, [t \in Tracks |-> 0], [t \in Tracks |-> 4]),
                table, PitchTrack, 0)
  /\ last = OrderOp("init", "none", engine, 0, 0, FALSE)
  /\ data = InitData
  /\ freed = {}
  /\ audioPc = "idle"
  /\ raced = FALSE
  /\ parse = NoParse

NextOrder == OrderBendRange \/ OrderNoteOn \/ OrderPitchBend

SpecOrder == InitOrder /\ [][NextOrder]_vars

\* the engine after the two events in the other order
OtherOrder ==
  IF last.first = "note_on"
  THEN m4a_engine_note_on(
         m4a_engine_pitch_bend(last.start, PitchTrack, last.bend),
         PitchTrack, last.key, 127)
  ELSE m4a_engine_pitch_bend(
         m4a_engine_note_on(last.start, PitchTrack, last.key, 127),
         PitchTrack, last.bend)

\* C39: for a resampled PCM voice on a track without LFO modulation, note_on
\* then pitch_bend(b) leaves the channel with the frequency word that
\* pitch_bend(b) then note_on leaves.
C39_AsStated ==
  last.done =>
    engine.pcmChannels[0].frequency = OtherOrder.pcmChannels[0].frequency

(* ---- maxPcmChannels changed while notes sound ---- *)

\* the values of the polyphony slider and of the channel byte of a saved
\* state
PolyChannels == 1 .. MaxChan

\* timer_on_timer after the user moved the polyphony slider
PolyTimer ==
  \E v \in PolyChannels :
    TimerSettings(data.songMasterVolume, 0, data.masterVolume, v)

\* state_load of a saved state of the loaded voicegroup
PolyStateLoad ==
  \E ch \in PolyChannels :
    StateLoadStream(data.voicegroupName, data.masterVolume,
                    data.songMasterVolume, ch)

\* the activated plugin with its GUI open, MaxChan PCM channels and the
\* fixed-frequency DirectSound voice on every track
InitPoly ==
  /\ engine = EngineWith(pcmFreq, MaxChan, TrackPriority, [t \in Tracks |-> 1])
  /\ data = [InitData EXCEPT !.activated = TRUE, !.gui = TRUE, !.loadedVg = 1,
                             !.voicegroupName = 1, !.maxPcmChannels = MaxChan]
  /\ last = Op("init", engine, engine, 0, 0, NoNote)
  /\ freed = {}
  /\ audioPc = "idle"
  /\ raced = FALSE
  /\ parse = NoParse
  /\ table = <<>>

NextPoly == NoteOnAct \/ AllSoundOffAct \/ PolyTimer \/ PolyStateLoad

SpecPoly == InitPoly /\ [][NextPoly]_vars

\* the number of active PCM channels of engine e
ActivePcm(e) == Cardinality({i \in PcmIdx : IsOn(e.pcmChannels[i].status)})

====
